---------------------------- MODULE Spec2Model ----------------------------
(***************************************************************************)
(* A model of the RAG tool handlers of n8n-mcp-server:                     *)
(*   - the workflow-structure builder of rag_generate_workflow             *)
(*     (generateWorkflowStructure, inferTrigger, the two type tables),     *)
(*   - the implementation-step generator of generate_complete_workflow,    *)
(*   - the approach suggestion of rag_get_insights,                        *)
(*   - executePythonScript and the execute methods of the three handlers.  *)
(*                                                                         *)
(* JavaScript strings are TLA+ strings.  An optional field (undefined when *)
(* absent) is a sequence of length 0 or 1: None, Some(v).  A JavaScript    *)
(* value whose type matters is a record [t |-> type, v |-> payload].       *)
(***************************************************************************)
EXTENDS Integers, Sequences, FiniteSets, TLC

VARIABLES
  \* generateWorkflowStructure: its arguments, its locals, its position
  description, requirements, context,
  nodes, connections, previousNodeId, nodeCount, cursor, pc,
  \* generateImplementationSteps: its arguments, its locals, its position
  features, outputFormat, useTaskManager, steps, featureCursor, stepsPc,
  \* getTriggerNodeType / getIntegrationNodeType: the keys and the results
  triggerKey, integrationKey, triggerResult, integrationResult,
  \* the insight synthesizer: the insights object and what was derived
  insights, approach,
  \* identifyKeyComponents / getConsiderations: the insights and the two lists
  synthInsights, keyComponents, considerations,
  \* handleGenerateCompleteWorkflow: its inputs, the examples loaded, the prompt
  promptArgs, demoExamples, taskManagerExamples, systemPrompt, promptPc,
  \* tool requests in flight: each request, and the subprocesses it spawned
  requests, procs

builderVars == <<description, requirements, context,
                 nodes, connections, previousNodeId, nodeCount, cursor, pc>>
stepsVars == <<features, outputFormat, useTaskManager, steps, featureCursor, stepsPc>>
typeVars == <<triggerKey, integrationKey, triggerResult, integrationResult>>
insightVars == <<insights, approach>>
synthVars == <<synthInsights, keyComponents, considerations>>
promptVars == <<promptArgs, demoExamples, taskManagerExamples, systemPrompt, promptPc>>
execVars == <<requests, procs>>

vars ==
  <<builderVars, stepsVars, typeVars, insightVars, synthVars, promptVars, execVars>>

\* what the actions of one component leave alone
outsideBuilder ==
  <<stepsVars, typeVars, insightVars, synthVars, promptVars, execVars>>
outsideSteps ==
  <<builderVars, typeVars, insightVars, synthVars, promptVars, execVars>>
outsideTypes ==
  <<builderVars, stepsVars, insightVars, synthVars, promptVars, execVars>>
outsideInsights ==
  <<builderVars, stepsVars, typeVars, synthVars, promptVars, execVars>>
outsideExec ==
  <<builderVars, stepsVars, typeVars, insightVars, synthVars, promptVars>>
outsideSynth ==
  <<builderVars, stepsVars, typeVars, insightVars, promptVars, execVars>>
outsidePrompt ==
  <<builderVars, stepsVars, typeVars, insightVars, synthVars, execVars>>

---------------------------------------------------------------------------
(* Bounds of the model *)

\* longest requirements.integrations list drawn
MaxIntegrations == 2
\* longest context.suggested_nodes list drawn (one more than the slice keeps)
MaxSuggested == 4

---------------------------------------------------------------------------
(* Optional values and strings *)

None == <<>>
Some(v) == <<v>>
IsSome(o) == Len(o) > 0
Get(o) == o[1]

UpperChars == "ABCDEFGHIJKLMNOPQRSTUVWXYZ"
LowerChars == "abcdefghijklmnopqrstuvwxyz"

CharAt(s, i) == SubSeq(s, i, i)

LowerChar(c) ==
  IF \E i \in 1..26 : CharAt(UpperChars, i) = c
    THEN CharAt(LowerChars, CHOOSE i \in 1..26 : CharAt(UpperChars, i) = c)
    ELSE c

RECURSIVE toLowerCase(_)
toLowerCase(s) ==
  IF Len(s) = 0 THEN ""
  ELSE LowerChar(CharAt(s, 1)) \o toLowerCase(SubSeq(s, 2, Len(s)))

\* String.prototype.includes for a non-empty needle
includes(s, sub) ==
  \E i \in 1..(Len(s) - Len(sub) + 1) : SubSeq(s, i, i + Len(sub) - 1) = sub

\* Array.prototype.includes
arrayIncludes(arr, x) == \E i \in DOMAIN arr : arr[i] = x

\* optional chaining: o?.includes(x) is undefined (falsy) when o is absent
optIncludes(o, x) == IsSome(o) /\ arrayIncludes(Get(o), x)

\* Array.prototype.slice(0, n)
slice0(arr, n) == SubSeq(arr, 1, IF Len(arr) < n THEN Len(arr) ELSE n)

---------------------------------------------------------------------------
(* The type tables: getTriggerNodeType, getIntegrationNodeType *)

JsStr(s) == [t |-> "string", v |-> s]
Undefined == [t |-> "undefined", v |-> ""]

\* Members every object literal inherits from Object.prototype: a property
\* read map[key] finds them when key is not an own key of the literal.
ObjectPrototypeKeys ==
  {"constructor", "toString", "valueOf", "hasOwnProperty", "__proto__"}

InheritedMember(key) ==
  [t |-> IF key = "__proto__" THEN "object" ELSE "function", v |-> key]

\* map[key] on an object literal whose own entries are the record map
PropertyGet(map, key) ==
  IF key \in DOMAIN map THEN JsStr(map[key])
  ELSE IF key \in ObjectPrototypeKeys THEN InheritedMember(key)
  ELSE Undefined

triggerMap ==
  [webhook  |-> "n8n-nodes-base.webhook",
   schedule |-> "n8n-nodes-base.scheduleTrigger",
   manual   |-> "n8n-nodes-base.manualTrigger",
   chat     |-> "@n8n/n8n-nodes-langchain.chatTrigger"]

integrationMap ==
  [slack    |-> "n8n-nodes-base.slack",
   telegram |-> "n8n-nodes-base.telegram",
   email    |-> "n8n-nodes-base.emailSend",
   openai   |-> "@n8n/n8n-nodes-langchain.lmChatOpenAi",
   supabase |-> "@n8n/n8n-nodes-langchain.supabaseVectorStore",
   http     |-> "n8n-nodes-base.httpRequest"]

\* v || fallback, for the values a table read can give (entries are non-empty)
OrElse(v, fallback) == IF v = Undefined THEN fallback ELSE v

getTriggerNodeType(trigger) ==
  OrElse(PropertyGet(triggerMap, trigger), JsStr("n8n-nodes-base.manualTrigger"))

getIntegrationNodeType(integration) ==
  OrElse(PropertyGet(integrationMap, toLowerCase(integration)),
         JsStr("n8n-nodes-base.httpRequest"))

---------------------------------------------------------------------------
(* generateWorkflowStructure *)

\* mutant: "scheduled" tested before "microservice"
inferTrigger_ScheduleFirst(ctx) ==
  LET patterns == IF IsSome(ctx.patterns) THEN Get(ctx.patterns) ELSE <<>>
  IN  IF arrayIncludes(patterns, "scheduled") THEN "schedule"
      ELSE IF arrayIncludes(patterns, "microservice") THEN "webhook"
      ELSE "manual"

inferTrigger(ctx) ==
  LET patterns == IF IsSome(ctx.patterns) THEN Get(ctx.patterns) ELSE <<>>
  IN  IF arrayIncludes(patterns, "microservice") THEN "webhook"
      ELSE IF arrayIncludes(patterns, "scheduled") THEN "schedule"
      ELSE "manual"

\* requirements.trigger || this.inferTrigger(context): the empty string is falsy
TriggerKind(req, ctx) ==
  IF IsSome(req.trigger) /\ Get(req.trigger) # ""
    THEN Get(req.trigger)
    ELSE inferTrigger(ctx)

Edge(target) == [node |-> target, type |-> "main", index |-> 0]

\* connections[source] = { main: [[{ node: target, type: 'main', index: 0 }]] }
Link(conns, source, target) ==
  (source :> [main |-> << <<Edge(target)>> >>]) @@ conns

\* mutant: previousNodeId is not advanced after the link
Chain_NoAdvance(b, node, count) ==
  [nodes          |-> Append(b.nodes, node),
   connections    |-> Link(b.connections, b.previousNodeId, node.id),
   previousNodeId |-> b.previousNodeId,
   nodeCount      |-> count]

\* nodes.push(node); connections[previousNodeId] = ...; previousNodeId = node.id
Chain(b, node, count) ==
  [nodes          |-> Append(b.nodes, node),
   connections    |-> Link(b.connections, b.previousNodeId, node.id),
   previousNodeId |-> node.id,
   nodeCount      |-> count]

\* lines 127-140: the trigger node, previousNodeId and nodeCount
PushTrigger(req, ctx) ==
  LET triggerType == TriggerKind(req, ctx)
  IN  [nodes |-> << [id         |-> "trigger_1",
                     type       |-> getTriggerNodeType(triggerType),
                     name       |-> triggerType \o " Trigger",
                     parameters |-> {},
                     position   |-> <<250, 300>>] >>,
       connections    |-> <<>>,
       previousNodeId |-> "trigger_1",
       nodeCount      |-> 1]

NeedsAgent(desc, ctx) ==
  \/ optIncludes(ctx.patterns, "ai_agent")
  \/ includes(toLowerCase(desc), "ai")
  \/ includes(toLowerCase(desc), "chat")

PushAgent(b) ==
  LET count == b.nodeCount + 1
  IN  Chain(b, [id         |-> "agent_" \o ToString(count),
                type       |-> JsStr("@n8n/n8n-nodes-langchain.agent"),
                name       |-> "AI Agent",
                parameters |-> {},
                position   |-> <<450, 300>>], count)

\* mutant: the x offset counts the nodes before this one
PushIntegration_CountBefore(b, integration) ==
  LET count == b.nodeCount + 1
  IN  Chain(b, [id         |-> "node_" \o ToString(count),
                type       |-> getIntegrationNodeType(integration),
                name       |-> integration \o " Integration",
                parameters |-> {},
                position   |-> <<250 + (count - 1) * 200, 300>>], count)

PushIntegration(b, integration) ==
  LET count == b.nodeCount + 1
  IN  Chain(b, [id         |-> "node_" \o ToString(count),
                type       |-> getIntegrationNodeType(integration),
                name       |-> integration \o " Integration",
                parameters |-> {},
                position   |-> <<250 + count * 200, 300>>], count)

\* mutant: nodeCount is not incremented before the id is formed
PushSuggested_SameCount(b, suggested) ==
  LET count == b.nodeCount
  IN  Chain(b, [id         |-> "node_" \o ToString(count),
                type       |-> JsStr(suggested.type),
                name       |-> suggested.name,
                parameters |-> IF IsSome(suggested.parameters)
                                 THEN Get(suggested.parameters) ELSE {},
                position   |-> <<250 + count * 200, 300>>], count)

PushSuggested(b, suggested) ==
  LET count == b.nodeCount + 1
  IN  Chain(b, [id         |-> "node_" \o ToString(count),
                type       |-> JsStr(suggested.type),
                name       |-> suggested.name,
                parameters |-> IF IsSome(suggested.parameters)
                                 THEN Get(suggested.parameters) ELSE {},
                position   |-> <<250 + count * 200, 300>>], count)

\* mutant: the slice(0, 3) is missing
SuggestedSlice_All(ctx) ==
  IF IsSome(ctx.suggested_nodes) THEN Get(ctx.suggested_nodes) ELSE <<>>

\* context.suggested_nodes?.slice(0, 3) || []
SuggestedSlice(ctx) ==
  IF IsSome(ctx.suggested_nodes) THEN slice0(Get(ctx.suggested_nodes), 3) ELSE <<>>

\* requirements.integrations, or nothing to iterate when it is absent
IntegrationList(req) ==
  IF IsSome(req.integrations) THEN Get(req.integrations) ELSE <<>>

Locals == [nodes |-> nodes, connections |-> connections,
           previousNodeId |-> previousNodeId, nodeCount |-> nodeCount]

SetLocals(b) ==
  /\ nodes' = b.nodes
  /\ connections' = b.connections
  /\ previousNodeId' = b.previousNodeId
  /\ nodeCount' = b.nodeCount

BuildTrigger ==
  /\ pc = "start"
  /\ SetLocals(PushTrigger(requirements, context))
  /\ pc' = "agent"
  /\ UNCHANGED <<description, requirements, context, cursor>>
  /\ UNCHANGED outsideBuilder

BuildAgent ==
  /\ pc = "agent"
  /\ NeedsAgent(description, context)
  /\ SetLocals(PushAgent(Locals))
  /\ pc' = "integrations"
  /\ UNCHANGED <<description, requirements, context, cursor>>
  /\ UNCHANGED outsideBuilder

SkipAgent ==
  /\ pc = "agent"
  /\ ~NeedsAgent(description, context)
  /\ pc' = "integrations"
  /\ UNCHANGED <<description, requirements, context, cursor,
                 nodes, connections, previousNodeId, nodeCount>>
  /\ UNCHANGED outsideBuilder

BuildIntegration ==
  /\ pc = "integrations"
  /\ cursor <= Len(IntegrationList(requirements))
  /\ SetLocals(PushIntegration(Locals, IntegrationList(requirements)[cursor]))
  /\ cursor' = cursor + 1
  /\ UNCHANGED <<description, requirements, context, pc>>
  /\ UNCHANGED outsideBuilder

EndIntegrations ==
  /\ pc = "integrations"
  /\ cursor > Len(IntegrationList(requirements))
  /\ pc' = "suggested"
  /\ cursor' = 1
  /\ UNCHANGED <<description, requirements, context,
                 nodes, connections, previousNodeId, nodeCount>>
  /\ UNCHANGED outsideBuilder

BuildSuggested ==
  /\ pc = "suggested"
  /\ cursor <= Len(SuggestedSlice(context))
  /\ SetLocals(PushSuggested(Locals, SuggestedSlice(context)[cursor]))
  /\ cursor' = cursor + 1
  /\ UNCHANGED <<description, requirements, context, pc>>
  /\ UNCHANGED outsideBuilder

ReturnStructure ==
  /\ pc = "suggested"
  /\ cursor > Len(SuggestedSlice(context))
  /\ pc' = "done"
  /\ UNCHANGED <<description, requirements, context, cursor,
                 nodes, connections, previousNodeId, nodeCount>>
  /\ UNCHANGED outsideBuilder

---------------------------------------------------------------------------
(* generateImplementationSteps of generate_complete_workflow *)

\* longest feature list drawn
MaxFeatures == 2

IsMicroservices(fmt) == IsSome(fmt) /\ Get(fmt) = "microservices"

\* mutant: the "Design separate microservice workflows" step is not pushed
OpeningSteps_OrchestratorOnly(fmt) ==
  IF IsMicroservices(fmt)
    THEN <<"Create main orchestrator workflow with webhook trigger">>
    ELSE <<"Create main workflow with appropriate trigger">>

\* the pushes before features.forEach, in either branch
OpeningSteps(fmt) ==
  IF IsMicroservices(fmt)
    THEN <<"Create main orchestrator workflow with webhook trigger",
           "Design separate microservice workflows for each feature">>
    ELSE <<"Create main workflow with appropriate trigger">>

\* the push of one forEach iteration
FeatureStep(fmt, f) ==
  IF IsMicroservices(fmt)
    THEN "Implement " \o f \o " microservice with webhook trigger and response"
    ELSE "Add " \o f \o " integration nodes and configuration"

\* mutant: the task-manager steps are pushed in the single branch too
ClosingSteps_TaskManagerAlways(fmt, tm) ==
  (IF tm THEN <<"Integrate Task Manager for workflow orchestration",
                "Add task creation and monitoring capabilities">>
         ELSE <<>>)
  \o (IF IsMicroservices(fmt)
        THEN <<"Connect microservices via HTTP requests",
               "Add centralized logging and error handling">>
        ELSE <<"Implement error handling and logging",
               "Add documentation via Sticky Notes",
               "Test all connections and data flow">>)

\* the pushes after features.forEach, in either branch
ClosingSteps(fmt, tm) ==
  IF IsMicroservices(fmt)
    THEN (IF tm THEN <<"Integrate Task Manager for workflow orchestration",
                       "Add task creation and monitoring capabilities">>
                ELSE <<>>)
         \o <<"Connect microservices via HTTP requests",
              "Add centralized logging and error handling">>
    ELSE <<"Implement error handling and logging",
           "Add documentation via Sticky Notes",
           "Test all connections and data flow">>

StepsOpen ==
  /\ stepsPc = "start"
  /\ steps' = steps \o OpeningSteps(outputFormat)
  /\ stepsPc' = "features"
  /\ UNCHANGED <<features, outputFormat, useTaskManager, featureCursor>>
  /\ UNCHANGED outsideSteps

StepsFeature ==
  /\ stepsPc = "features"
  /\ featureCursor <= Len(features)
  /\ steps' = Append(steps, FeatureStep(outputFormat, features[featureCursor]))
  /\ featureCursor' = featureCursor + 1
  /\ UNCHANGED <<features, outputFormat, useTaskManager, stepsPc>>
  /\ UNCHANGED outsideSteps

StepsClose ==
  /\ stepsPc = "features"
  /\ featureCursor > Len(features)
  /\ steps' = steps \o ClosingSteps(outputFormat, useTaskManager)
  /\ stepsPc' = "done"
  /\ UNCHANGED <<features, outputFormat, useTaskManager, featureCursor>>
  /\ UNCHANGED outsideSteps

FeatureNames == {"slack", "telegram"}

StepsInit ==
  /\ features \in {fs \in UNION {[1..n -> FeatureNames] : n \in 0..MaxFeatures} : TRUE}
  /\ outputFormat \in {None, Some("single"), Some("microservices")}
  /\ useTaskManager \in BOOLEAN
  /\ steps = <<>>
  /\ featureCursor = 1
  /\ stepsPc = "start"

StepsIdle ==
  /\ features = <<>>
  /\ outputFormat = None
  /\ useTaskManager = FALSE
  /\ steps = <<>>
  /\ featureCursor = 1
  /\ stepsPc = "idle"

---------------------------------------------------------------------------
(* Calls of the two type-table lookups *)

NotCalled == [t |-> "none", v |-> ""]

ResolveTrigger ==
  /\ triggerResult = NotCalled
  /\ triggerResult' = getTriggerNodeType(triggerKey)
  /\ UNCHANGED <<triggerKey, integrationKey, integrationResult>>
  /\ UNCHANGED outsideTypes

ResolveIntegration ==
  /\ integrationResult = NotCalled
  /\ integrationResult' = getIntegrationNodeType(integrationKey)
  /\ UNCHANGED <<triggerKey, integrationKey, triggerResult>>
  /\ UNCHANGED outsideTypes

TriggerKeys ==
  {"webhook", "schedule", "manual", "chat", "Webhook", "CHAT", "cron", "",
   "slack", "constructor", "toString"}

IntegrationKeys ==
  {"slack", "Slack", "SLACK", "telegram", "Email", "openai", "supabase",
   "http", "HTTP", "jira", "", "webhook", "constructor"}

TypesInit ==
  /\ triggerKey \in TriggerKeys
  /\ integrationKey \in IntegrationKeys
  /\ triggerResult = NotCalled
  /\ integrationResult = NotCalled

TypesIdle ==
  /\ triggerKey = ""
  /\ integrationKey = ""
  /\ triggerResult = NotCalled
  /\ integrationResult = NotCalled

---------------------------------------------------------------------------
(* The insight synthesizer of rag_get_insights *)

\* longest recommended_patterns list drawn
MaxPatterns == 2

\* x || [] for an optional array
OrEmpty(o) == IF IsSome(o) THEN Get(o) ELSE <<>>

\* mutant: the ai_agent test comes before the microservice test
suggestApproach_AgentFirst(ins) ==
  LET patterns == OrEmpty(ins.recommended_patterns)
      matches  == OrEmpty(ins.workflow_matches)
  IN  IF arrayIncludes(patterns, "ai_agent")
        THEN "Implement an AI agent with tool integration for intelligent automation."
      ELSE IF arrayIncludes(patterns, "microservice")
        THEN "Use a microservice pattern with webhook triggers for modular design."
      ELSE IF arrayIncludes(patterns, "rag")
        THEN "Use RAG pattern for context-aware responses with vector database integration."
      ELSE IF Len(matches) > 0
        THEN "Consider adapting the \"" \o matches[1].name \o "\" workflow as a starting point."
      ELSE "Start with a simple webhook trigger and build incrementally."

\* topWorkflow is insights.workflow_matches?.[0]: undefined when there is none
suggestApproach(ins) ==
  LET patterns == OrEmpty(ins.recommended_patterns)
      matches  == OrEmpty(ins.workflow_matches)
  IN  IF arrayIncludes(patterns, "microservice")
        THEN "Use a microservice pattern with webhook triggers for modular design."
      ELSE IF arrayIncludes(patterns, "ai_agent")
        THEN "Implement an AI agent with tool integration for intelligent automation."
      ELSE IF arrayIncludes(patterns, "rag")
        THEN "Use RAG pattern for context-aware responses with vector database integration."
      ELSE IF Len(matches) > 0
        THEN "Consider adapting the \"" \o matches[1].name \o "\" workflow as a starting point."
      ELSE "Start with a simple webhook trigger and build incrementally."

SuggestApproach ==
  /\ approach = None
  /\ IsSome(insights)
  /\ approach' = Some(suggestApproach(Get(insights)))
  /\ UNCHANGED insights
  /\ UNCHANGED outsideInsights

PatternTags == {"microservice", "ai_agent", "rag", "modular"}

RecommendedInputs ==
  {None} \cup {Some(ps) : ps \in UNION {[1..n -> PatternTags] : n \in 0..MaxPatterns}}

MatchInputs ==
  {None, Some(<<>>),
   Some(<<[name |-> "Support Bot", similarity |-> 910]>>),
   Some(<<[name |-> "Daily Report", similarity |-> 745],
          [name |-> "Support Bot", similarity |-> 500]>>)}

InsightsInit ==
  /\ insights \in {Some(i) : i \in [recommended_patterns : RecommendedInputs,
                                    workflow_matches : MatchInputs]}
  /\ approach = None

InsightsIdle ==
  /\ insights = None
  /\ approach = None

---------------------------------------------------------------------------
(* The rest of the insight synthesizer: summary, components, considerations *)

\* (x * 100).toFixed(0) for a similarity x held in thousandths
PercentFixed0(permille) == ToString((permille + 5) \div 10)

\* `${v}` of an optional string: "undefined" when it is absent
Interpolate(o) == IF IsSome(o) THEN Get(o) ELSE "undefined"

generateSummary(ins) ==
  LET workflowCount == Len(OrEmpty(ins.workflow_matches))
      suggestionCount == Len(OrEmpty(ins.node_suggestions))
  IN  IF workflowCount = 0
        THEN "No exact workflow matches found for \"" \o Interpolate(ins.query)
             \o "\", but " \o ToString(suggestionCount)
             \o " relevant nodes were identified that could help build this solution."
        ELSE "Found " \o ToString(workflowCount) \o " relevant workflows and "
             \o ToString(suggestionCount) \o " suggested nodes for \""
             \o Interpolate(ins.query) \o "\". The most similar workflow has "
             \o PercentFixed0(Get(ins.workflow_matches)[1].similarity)
             \o "% similarity."

\* nodes.some(n => n.type?.includes(a) || n.type?.includes(b) || ...)
SomeTypeIncludes(suggestions, words) ==
  \E i \in DOMAIN suggestions :
    /\ IsSome(suggestions[i].type)
    /\ \E w \in words : includes(Get(suggestions[i].type), w)

\* mutant: only the first two suggestions are named
identifyKeyComponents_TopTwo(ins) ==
  LET suggestions == OrEmpty(ins.node_suggestions)
      hasTrigger   == SomeTypeIncludes(suggestions, {"trigger", "webhook"})
      hasAI        == SomeTypeIncludes(suggestions, {"ai", "agent", "openai"})
      hasDatabase  == SomeTypeIncludes(suggestions, {"supabase", "postgres"})
      hasMessaging == SomeTypeIncludes(suggestions, {"telegram", "slack", "email"})
      top          == slice0(suggestions, 2)
  IN  (IF ~hasTrigger THEN <<"Webhook or manual trigger">> ELSE <<>>)
      \o (IF hasAI THEN <<"AI/LLM integration">> ELSE <<>>)
      \o (IF hasDatabase THEN <<"Database storage">> ELSE <<>>)
      \o (IF hasMessaging THEN <<"Messaging integration">> ELSE <<>>)
      \o [i \in 1..Len(top) |-> Interpolate(top[i].name) \o " node"]

identifyKeyComponents(ins) ==
  LET suggestions == OrEmpty(ins.node_suggestions)
      hasTrigger   == SomeTypeIncludes(suggestions, {"trigger", "webhook"})
      hasAI        == SomeTypeIncludes(suggestions, {"ai", "agent", "openai"})
      hasDatabase  == SomeTypeIncludes(suggestions, {"supabase", "postgres"})
      hasMessaging == SomeTypeIncludes(suggestions, {"telegram", "slack", "email"})
      top          == slice0(suggestions, 3)
  IN  (IF ~hasTrigger THEN <<"Webhook or manual trigger">> ELSE <<>>)
      \o (IF hasAI THEN <<"AI/LLM integration">> ELSE <<>>)
      \o (IF hasDatabase THEN <<"Database storage">> ELSE <<>>)
      \o (IF hasMessaging THEN <<"Messaging integration">> ELSE <<>>)
      \o [i \in 1..Len(top) |-> Interpolate(top[i].name) \o " node"]

\* mutant: the AI-agent note is pushed before the complexity note
getConsiderations_AgentNoteFirst(ins) ==
  (IF optIncludes(ins.recommended_patterns, "ai_agent")
     THEN <<"Configure AI agent with appropriate tools and memory management">>
     ELSE <<>>)
  \o (IF ins.complexity_estimate = Some("advanced")
        THEN <<"This is a complex workflow that may require multiple sub-workflows">>
        ELSE <<>>)
  \o (IF SomeTypeIncludes(OrEmpty(ins.node_suggestions), {"database"})
        THEN <<"Set up database credentials and schema before implementation">>
        ELSE <<>>)
  \o <<"Consider error handling and retry logic for reliability",
       "Implement logging for debugging and monitoring">>

getConsiderations(ins) ==
  (IF ins.complexity_estimate = Some("advanced")
     THEN <<"This is a complex workflow that may require multiple sub-workflows">>
     ELSE <<>>)
  \o (IF optIncludes(ins.recommended_patterns, "ai_agent")
        THEN <<"Configure AI agent with appropriate tools and memory management">>
        ELSE <<>>)
  \o (IF SomeTypeIncludes(OrEmpty(ins.node_suggestions), {"database"})
        THEN <<"Set up database credentials and schema before implementation">>
        ELSE <<>>)
  \o <<"Consider error handling and retry logic for reliability",
       "Implement logging for debugging and monitoring">>

\* longest node_suggestions list drawn
MaxNodeSuggestions == 4

IdentifyKeyComponents ==
  /\ IsSome(synthInsights)
  /\ keyComponents = None
  /\ keyComponents' = Some(identifyKeyComponents(Get(synthInsights)))
  /\ UNCHANGED <<synthInsights, considerations>>
  /\ UNCHANGED outsideSynth

GetConsiderations ==
  /\ IsSome(synthInsights)
  /\ considerations = None
  /\ considerations' = Some(getConsiderations(Get(synthInsights)))
  /\ UNCHANGED <<synthInsights, keyComponents>>
  /\ UNCHANGED outsideSynth

\* node suggestions the retrieval service may return; type and name are optional
NodeSuggestionPool ==
  {[name |-> Some("Webhook"), type |-> Some("n8n-nodes-base.webhook")],
   [name |-> Some("AI Agent"), type |-> Some("@n8n/n8n-nodes-langchain.agent")],
   [name |-> Some("Postgres"), type |-> Some("n8n-nodes-base.postgres")],
   [name |-> Some("Telegram"), type |-> Some("n8n-nodes-base.telegram")],
   [name |-> Some("Query"), type |-> Some("custom.databaseQuery")],
   [name |-> None, type |-> None]}

NodeSuggestionInputs ==
  {None} \cup {Some(ns) : ns \in UNION {[1..n -> NodeSuggestionPool] :
                                           n \in 0..MaxNodeSuggestions}}

SynthPatternInputs == {None, Some(<<"rag">>), Some(<<"rag", "ai_agent">>)}

ComplexityInputs == {None, Some("advanced"), Some("intermediate")}

SynthInit ==
  /\ synthInsights \in {Some(i) : i \in [node_suggestions : NodeSuggestionInputs,
                                          recommended_patterns : SynthPatternInputs,
                                          complexity_estimate : ComplexityInputs]}
  /\ keyComponents = None
  /\ considerations = None

SynthIdle ==
  /\ synthInsights = None
  /\ keyComponents = None
  /\ considerations = None

---------------------------------------------------------------------------
(* Values the retrieval process can print, and JSON.parse on them *)

\* a parsed JSON value: its kind, and the payload of that kind
JsonString(text) == [kind |-> "string", str |-> text]
JsonNull == [kind |-> "null"]
JsonArray(items) == [kind |-> "array", arr |-> items]
JsonObject(fields) == [kind |-> "object", obj |-> fields]

\* value.name for the property names the handlers read: undefined on a
\* string, an array, or an object that lacks the property
Field(value, name) ==
  IF value.kind = "object" /\ name \in DOMAIN value.obj
    THEN value.obj[name] ELSE None

DocContext ==
  "{\"patterns\":[\"microservice\"],\"suggested_nodes\":[{\"type\":\"n8n-nodes-base.set\",\"name\":\"Set\",\"description\":\"Set values\"}],\"relevant_workflows\":[{\"name\":\"Support Bot\",\"complexity\":\"simple\"}]}"

DocInsights ==
  "{\"query\":\"support bot\",\"workflow_matches\":[{\"name\":\"Support Bot\",\"similarity\":0.91}],\"node_suggestions\":[{\"type\":\"n8n-nodes-base.slack\",\"name\":\"Slack\"}],\"recommended_patterns\":[\"ai_agent\"]}"

DocWorkflows ==
  "[{\"name\":\"Support Bot\",\"description\":\"Answers tickets\",\"similarity\":0.91,\"id\":\"w1\",\"data\":{\"complexity\":\"simple\"}},{\"name\":\"Daily Report\",\"description\":\"Mails a report\",\"similarity\":0.745,\"id\":\"w2\"}]"

DocNodes ==
  "[{\"name\":\"Slack\",\"description\":\"Send messages\",\"similarity\":0.8,\"id\":\"n1\",\"data\":{\"node_type\":\"n8n-nodes-base.slack\"}}]"

\* the documents above as JSON.parse returns them; similarity in thousandths
JsonDocuments ==
  (DocContext :> JsonObject(
     [patterns |-> Some(<<"microservice">>),
      suggested_nodes |-> Some(<< [type |-> "n8n-nodes-base.set", name |-> "Set",
                                   description |-> Some("Set values"),
                                   parameters |-> None] >>),
      relevant_workflows |-> Some(<< [name |-> Some("Support Bot"),
                                      complexity |-> Some("simple"),
                                      patterns |-> None] >>)]))
  @@ (DocInsights :> JsonObject(
     [query |-> Some("support bot"),
      workflow_matches |-> Some(<< [name |-> "Support Bot", similarity |-> 910] >>),
      node_suggestions |-> Some(<< [type |-> Some("n8n-nodes-base.slack"),
                                    name |-> Some("Slack")] >>),
      recommended_patterns |-> Some(<<"ai_agent">>),
      complexity_estimate |-> None]))
  @@ (DocWorkflows :> JsonArray(
     << [name |-> Some("Support Bot"), description |-> Some("Answers tickets"),
         similarity |-> Some(910), id |-> Some("w1"),
         data |-> Some([complexity |-> Some("simple"), patterns |-> None,
                        tags |-> None, node_type |-> None, use_cases |-> None])],
        [name |-> Some("Daily Report"), description |-> Some("Mails a report"),
         similarity |-> Some(745), id |-> Some("w2"), data |-> None] >>))
  @@ (DocNodes :> JsonArray(
     << [name |-> Some("Slack"), description |-> Some("Send messages"),
         similarity |-> Some(800), id |-> Some("n1"),
         data |-> Some([complexity |-> None, patterns |-> None, tags |-> None,
                        node_type |-> Some("n8n-nodes-base.slack"),
                        use_cases |-> None])] >>))
  @@ ("{}" :> JsonObject([empty |-> TRUE]))
  @@ ("[]" :> JsonArray(<<>>))
  @@ ("null" :> JsonNull)

\* JSON.parse(text): the value, or a SyntaxError for a text that is no document
IsJson(text) == text \in DOMAIN JsonDocuments
JSONParse(text) == JsonDocuments[text]

---------------------------------------------------------------------------
(* The execute methods: what each builds from its arguments and the value   *)
(* the retrieval call resolved to                                           *)

\* a computation that returned a value, or threw inside the try block
Returned(v) == [threw |-> FALSE, value |-> v]
Thrown(message) == [threw |-> TRUE, message |-> message]

\* the tool results: the payload is the object handed to JSON.stringify
OkResult(payload) == [isError |-> FALSE, payload |-> payload]
ErrorResult(message, details) ==
  [isError |-> TRUE, payload |-> [error |-> message, details |-> details]]

RECURSIVE FoldIntegrations(_, _, _)
FoldIntegrations(b, list, i) ==
  IF i > Len(list) THEN b
  ELSE FoldIntegrations(PushIntegration(b, list[i]), list, i + 1)

RECURSIVE FoldSuggested(_, _, _)
FoldSuggested(b, list, i) ==
  IF i > Len(list) THEN b
  ELSE FoldSuggested(PushSuggested(b, list[i]), list, i + 1)

\* the whole of generateWorkflowStructure, as one value
generateWorkflowStructure(desc, req, ctx) ==
  LET b0 == PushTrigger(req, ctx)
      b1 == IF NeedsAgent(desc, ctx) THEN PushAgent(b0) ELSE b0
      b2 == FoldIntegrations(b1, IntegrationList(req), 1)
      b3 == FoldSuggested(b2, SuggestedSlice(ctx), 1)
  IN  [nodes |-> b3.nodes, connections |-> b3.connections,
       settings |-> [executionOrder |-> "v1"]]

\* structure.nodes.some(n => n.type.includes('agent')): "yes", "no", or
\* "throws" when a type that is no string is reached before a match
SomeAgentType(ns) ==
  LET hits == {i \in DOMAIN ns : ns[i].type.t = "string" /\ includes(ns[i].type.v, "agent")}
      bad  == {i \in DOMAIN ns : ns[i].type.t # "string"}
  IN  IF \E i \in bad : \A h \in hits : i < h THEN "throws"
      ELSE IF hits # {} THEN "yes" ELSE "no"

\* generateImplementationSteps of GenerateWorkflowHandler
handlerImplementationSteps(structure) ==
  LET head == <<"1. Create a new workflow in n8n",
                "2. Add the trigger node and configure its settings">>
              \o (IF SomeAgentType(structure.nodes) = "yes"
                    THEN <<"3. Configure the AI agent with appropriate model and tools">>
                    ELSE <<>>)
      n == Len(head)
  IN  head \o << ToString(n + 1) \o ". Connect all nodes as shown in the structure",
                 ToString(n + 2) \o ". Configure credentials for each integration",
                 ToString(n + 3) \o ". Test the workflow with sample data",
                 ToString(n + 4) \o ". Add error handling and logging nodes" >>

generateNotes(req, ctx) ==
  (IF optIncludes(ctx.patterns, "microservice")
     THEN <<"Consider implementing as a microservice with proper error responses">>
     ELSE <<>>)
  \o (IF req.complexity = Some("advanced")
        THEN <<"This workflow may benefit from being split into sub-workflows">>
        ELSE <<>>)
  \o <<"Remember to add proper error handling and logging",
       "Test thoroughly with edge cases before deploying to production">>

\* requirements = {} when the argument is absent
EmptyRequirements ==
  [trigger |-> None, integrations |-> None, complexity |-> None, patterns |-> None]

\* optional.map(f): undefined when the array is absent
MapOpt(o, F(_)) ==
  IF IsSome(o) THEN Some([i \in DOMAIN Get(o) |-> F(Get(o)[i])]) ELSE None

ProjectWorkflow(w) ==
  [name |-> w.name, complexity |-> w.complexity, patterns |-> w.patterns]
ProjectSuggested(n) ==
  [type |-> n.type, name |-> n.name, purpose |-> n.description]

\* GenerateWorkflowHandler.execute, lines 66-106, given the awaited context
GenerateBody(args, value) ==
  IF value.kind = "null"
    THEN Thrown("Cannot read properties of null (reading 'patterns')")
  ELSE
    LET req == IF IsSome(args.requirements) THEN Get(args.requirements)
                                            ELSE EmptyRequirements
        ctx == [patterns |-> Field(value, "patterns"),
                suggested_nodes |-> Field(value, "suggested_nodes")]
        structure == generateWorkflowStructure(args.description, req, ctx)
    IN  IF SomeAgentType(structure.nodes) = "throws"
          THEN Thrown("n.type.includes is not a function")
        ELSE Returned(
          [description |-> args.description,
           requirements |-> req,
           context |-> [relevantWorkflows |->
                          MapOpt(Field(value, "relevant_workflows"), ProjectWorkflow),
                        suggestedNodes |->
                          MapOpt(Field(value, "suggested_nodes"), ProjectSuggested),
                        patterns |-> Field(value, "patterns")],
           generatedStructure |-> structure,
           implementationSteps |-> handlerImplementationSteps(structure),
           notes |-> generateNotes(req, ctx)])

\* GetInsightsHandler.execute, lines 69-96, given the awaited insights
InsightsBody(args, value) ==
  IF value.kind = "null"
    THEN Thrown("Cannot read properties of null (reading 'query')")
  ELSE
    LET ins == [query |-> Field(value, "query"),
                workflow_matches |-> Field(value, "workflow_matches"),
                node_suggestions |-> Field(value, "node_suggestions"),
                recommended_patterns |-> Field(value, "recommended_patterns"),
                complexity_estimate |-> Field(value, "complexity_estimate")]
    IN  Returned(
          [query |-> ins.query,
           summary |-> generateSummary(ins),
           workflowMatches |-> OrEmpty(ins.workflow_matches),
           nodeSuggestions |-> OrEmpty(ins.node_suggestions),
           recommendedPatterns |-> OrEmpty(ins.recommended_patterns),
           complexityEstimate |-> IF IsSome(ins.complexity_estimate)
                                      /\ Get(ins.complexity_estimate) # ""
                                    THEN Get(ins.complexity_estimate)
                                    ELSE "intermediate",
           implementation |-> [suggestedApproach |-> suggestApproach(ins),
                               keyComponents |-> identifyKeyComponents(ins),
                               considerations |-> getConsiderations(ins)]])

\* result.data?.field
DataField(item, name) == IF IsSome(item.data) THEN Get(item.data)[name] ELSE None

FormatWorkflowMatch(result) ==
  [name |-> result.name,
   description |-> result.description,
   similarity |-> result.similarity,
   id |-> result.id,
   complexity |-> DataField(result, "complexity"),
   patterns |-> OrEmpty(DataField(result, "patterns")),
   tags |-> OrEmpty(DataField(result, "tags"))]

FormatSuggestedNode(result) ==
  [type |-> IF IsSome(DataField(result, "node_type"))
                 /\ Get(DataField(result, "node_type")) # ""
              THEN DataField(result, "node_type") ELSE result.name,
   name |-> result.name,
   description |-> result.description,
   similarity |-> result.similarity,
   useCases |-> OrEmpty(DataField(result, "use_cases"))]

\* mutant: includeNodes defaults to true
IncludeNodes_DefaultTrue(args) == IsSome(args.includeNodes) => Get(args.includeNodes)

IncludeNodes(args) == IsSome(args.includeNodes) /\ Get(args.includeNodes)

\* SearchWorkflowsHandler.execute, lines 66-97: nodeResults is the awaited
\* search_nodes value, or the empty array when includeNodes is false
SearchBody(args, searchResults, nodeResults) ==
  IF searchResults.kind = "null"
    THEN Thrown("Cannot read properties of null (reading 'map')")
  ELSE IF searchResults.kind # "array"
    THEN Thrown("searchResults.map is not a function")
  ELSE IF IncludeNodes(args) /\ nodeResults.kind = "null"
    THEN Thrown("Cannot read properties of null (reading 'map')")
  ELSE IF IncludeNodes(args) /\ nodeResults.kind # "array"
    THEN Thrown("nodeResults.map is not a function")
  ELSE Returned(
    [query |-> args.query,
     workflowMatches |-> [i \in DOMAIN searchResults.arr |->
                            FormatWorkflowMatch(searchResults.arr[i])],
     suggestedNodes |-> IF IncludeNodes(args)
                          THEN Some([i \in DOMAIN nodeResults.arr |->
                                       FormatSuggestedNode(nodeResults.arr[i])])
                          ELSE None,
     totalMatches |-> Len(searchResults.arr)])

\* the catch block of each execute
FailureDetails(tool) ==
  CASE tool = "rag_generate_workflow" -> "Failed to generate workflow structure"
    [] tool = "rag_get_insights" -> "Failed to get insights from RAG"
    [] tool = "rag_search_workflows" -> "Failed to search workflows using RAG"

\* try { ... return ok } catch (error) { return error result }
Caught(tool, body) ==
  IF body.threw THEN ErrorResult(body.message, FailureDetails(tool))
  ELSE OkResult(body.value)

---------------------------------------------------------------------------
(* executePythonScript: the subprocess, its listeners and the promise *)

\* most tool requests in flight at once
MaxRequests == 2

RECURSIVE Concat(_)
Concat(chunks) ==
  IF Len(chunks) = 0 THEN "" ELSE chunks[1] \o Concat(Tail(chunks))

Pending == [state |-> "pending"]
Fulfilled(value) == [state |-> "fulfilled", value |-> value]
Rejected(message) == [state |-> "rejected", message |-> message]

\* spawn(...) with output = '' and errorOutput = '': `script` is what the
\* subprocess is going to do, `settledBy` the event that settled the promise
NewProcess(method, script) ==
  [method |-> method, script |-> script,
   sent |-> 0, errSent |-> 0, output |-> "", errorOutput |-> "",
   errored |-> FALSE, closed |-> FALSE,
   promise |-> Pending, settledBy |-> ""]

\* mutant: every resolve / reject call overwrites the outcome
Settle_LastCallWins(p, outcome, event) ==
  [p EXCEPT !.promise = outcome, !.settledBy = event]

\* resolve / reject: only the first call settles the promise
Settle(p, outcome, event) ==
  IF p.promise.state = "pending"
    THEN [p EXCEPT !.promise = outcome, !.settledBy = event]
    ELSE p

\* mutant: output is one buffer shared by the subprocesses of all requests
OnStdoutData_Shared(ps, i, k, chunk) ==
  [j \in DOMAIN ps |->
     [m \in DOMAIN ps[j] |->
        IF (j = i /\ m = k) \/ (j # i /\ ~ps[j][m].closed)
          THEN [ps[j][m] EXCEPT !.output = @ \o chunk]
          ELSE ps[j][m]]]

\* stdout.on('data'): output += data.toString(), in the closure of this call
OnStdoutData(ps, i, k, chunk) ==
  [ps EXCEPT ![i][k].output = @ \o chunk]

\* stderr.on('data'): errorOutput += data.toString()
OnStderrData(ps, i, k, chunk) ==
  [ps EXCEPT ![i][k].errorOutput = @ \o chunk]

\* on('close', code)
OnClose(p, code) ==
  Settle([p EXCEPT !.closed = TRUE],
         IF code = 0
           THEN IF IsJson(p.output) THEN Fulfilled(JSONParse(p.output))
                                    ELSE Fulfilled(JsonString(p.output))
           ELSE Rejected("Python script failed with code " \o ToString(code)
                         \o ": " \o p.errorOutput),
         "close")

\* on('error', err)
OnError(p, message) ==
  Settle([p EXCEPT !.errored = TRUE],
         Rejected("Failed to start Python script: " \o message),
         "error")

\* callRAGClient(method, params): one more subprocess of request i
Spawn(ps, i, method, script) ==
  [ps EXCEPT ![i] = Append(@, NewProcess(method, script))]

---------------------------------------------------------------------------
(* What the retrieval subprocess may do, per method *)

Script(stdout, stderr, code, spawnError) ==
  [stdout |-> stdout, stderr |-> stderr, code |-> code, spawnError |-> spawnError]

\* a document printed in two writes
InTwo(doc, at) == <<SubSeq(doc, 1, at), SubSeq(doc, at + 1, Len(doc))>>

ContextInTwoWrites == Script(InTwo(DocContext, 40), <<>>, 0, FALSE)
TracebackExitZero == Script(<<"Traceback (most recent call last)">>, <<>>, 0, FALSE)
ImportErrorExitOne == Script(<<>>, <<"ModuleNotFoundError: rag">>, 1, FALSE)
SpawnFailure == Script(<<>>, <<>>, -2, TRUE)
InsightsPrinted == Script(<<DocInsights>>, <<>>, 0, FALSE)
InsightsTruncated == Script(<<SubSeq(DocInsights, 1, 24)>>, <<>>, 0, FALSE)
NullPrinted == Script(<<"null">>, <<>>, 0, FALSE)
KilledExit137 == Script(<<>>, <<"Killed">>, 137, FALSE)
WorkflowsPrinted == Script(<<DocWorkflows>>, <<>>, 0, FALSE)
NothingPrinted == Script(<<>>, <<>>, 0, FALSE)
NoIndexExitOne == Script(<<>>, <<"no index">>, 1, FALSE)
NodesPrinted == Script(<<DocNodes>>, <<>>, 0, FALSE)
ProgressLinePrinted == Script(<<"Searching...">>, <<>>, 0, FALSE)

GenerateDefaults == [description |-> "chat bot", requirements |-> None]
GenerateScheduled ==
  [description |-> "sync data",
   requirements |-> Some([trigger |-> Some("schedule"),
                          integrations |-> Some(<<"Slack">>),
                          complexity |-> Some("advanced"),
                          patterns |-> None])]
SearchOnly == [query |-> "support bot", includeNodes |-> None]
SearchWithNodes == [query |-> "support bot", includeNodes |-> Some(TRUE)]

Run(tool, args, script) == [tool |-> tool, args |-> args, script |-> script]

\* the tool calls drawn, each with what its first subprocess will do
FirstRuns ==
  { Run("rag_generate_workflow", GenerateDefaults, ContextInTwoWrites),
    Run("rag_generate_workflow", GenerateDefaults, TracebackExitZero),
    Run("rag_generate_workflow", GenerateDefaults, SpawnFailure),
    Run("rag_generate_workflow", GenerateScheduled, ContextInTwoWrites),
    Run("rag_generate_workflow", GenerateScheduled, ImportErrorExitOne),
    Run("rag_get_insights", [query |-> "support bot"], InsightsPrinted),
    Run("rag_get_insights", [query |-> "support bot"], InsightsTruncated),
    Run("rag_get_insights", [query |-> "support bot"], NullPrinted),
    Run("rag_get_insights", [query |-> "support bot"], KilledExit137),
    Run("rag_search_workflows", SearchOnly, WorkflowsPrinted),
    Run("rag_search_workflows", SearchOnly, NothingPrinted),
    Run("rag_search_workflows", SearchWithNodes, WorkflowsPrinted),
    Run("rag_search_workflows", SearchWithNodes, NoIndexExitOne),
    Run("rag_search_workflows", SearchWithNodes, ProgressLinePrinted) }

\* what the search_nodes subprocess of a search may do
SecondScripts == {NodesPrinted, ProgressLinePrinted, NoIndexExitOne}

FirstMethod(tool) ==
  CASE tool = "rag_generate_workflow" -> "build_generation_context"
    [] tool = "rag_get_insights" -> "query_insights"
    [] tool = "rag_search_workflows" -> "search_workflows"

---------------------------------------------------------------------------
(* The requests: execute up to its await, the events, the continuation *)

IdleRequest == [tool |-> "", args |-> <<>>, phase |-> "idle", result |-> None]

\* what execute returns once the awaited promise of its last call settled;
\* `first` is the settled promise of search_workflows when two calls were made
Continue(tool, args, first, last) ==
  IF last.state = "rejected"
    THEN ErrorResult(last.message, FailureDetails(tool))
  ELSE CASE tool = "rag_generate_workflow" ->
              Caught(tool, GenerateBody(args, last.value))
         [] tool = "rag_get_insights" ->
              Caught(tool, InsightsBody(args, last.value))
         [] tool = "rag_search_workflows" ->
              IF IncludeNodes(args)
                THEN Caught(tool, SearchBody(args, first.value, last.value))
                ELSE Caught(tool, SearchBody(args, last.value, JsonArray(<<>>)))

\* execute(args) runs to its first await: the first subprocess is spawned
StartRequest(i) ==
  /\ requests[i].phase = "idle"
  /\ \A j \in 1..(i - 1) : requests[j].phase # "idle"
  /\ \E run \in FirstRuns :
       /\ requests' = [requests EXCEPT ![i] =
                         [tool |-> run.tool, args |-> run.args,
                          phase |-> "awaiting", result |-> None]]
       /\ procs' = Spawn(procs, i, FirstMethod(run.tool), run.script)
  /\ UNCHANGED outsideExec

\* the subprocess writes its next chunk to stdout
StdoutData(i, k) ==
  LET p == procs[i][k]
  IN  /\ ~p.closed
      /\ p.sent < Len(p.script.stdout)
      /\ procs' = [OnStdoutData(procs, i, k, p.script.stdout[p.sent + 1])
                     EXCEPT ![i][k].sent = p.sent + 1]
      /\ UNCHANGED requests
      /\ UNCHANGED outsideExec

\* the subprocess writes its next chunk to stderr
StderrData(i, k) ==
  LET p == procs[i][k]
  IN  /\ ~p.closed
      /\ p.errSent < Len(p.script.stderr)
      /\ procs' = [OnStderrData(procs, i, k, p.script.stderr[p.errSent + 1])
                     EXCEPT ![i][k].errSent = p.errSent + 1]
      /\ UNCHANGED requests
      /\ UNCHANGED outsideExec

\* the subprocess could not be spawned: 'error' is emitted
ProcError(i, k) ==
  LET p == procs[i][k]
  IN  /\ p.script.spawnError
      /\ ~p.errored
      /\ ~p.closed
      /\ procs' = [procs EXCEPT ![i][k] = OnError(p, "spawn python3 ENOENT")]
      /\ UNCHANGED requests
      /\ UNCHANGED outsideExec

\* the subprocess has ended and its streams are closed: 'close' is emitted
ProcClose(i, k) ==
  LET p == procs[i][k]
  IN  /\ ~p.closed
      /\ p.sent = Len(p.script.stdout)
      /\ p.errSent = Len(p.script.stderr)
      /\ procs' = [procs EXCEPT ![i][k] = OnClose(p, p.script.code)]
      /\ UNCHANGED requests
      /\ UNCHANGED outsideExec

\* after `await callRAGClient('search_workflows', ...)` with includeNodes:
\* the second subprocess is spawned
ResumeSearchNodes(i) ==
  LET r == requests[i]
  IN  /\ r.phase = "awaiting"
      /\ r.tool = "rag_search_workflows"
      /\ IncludeNodes(r.args)
      /\ Len(procs[i]) = 1
      /\ procs[i][1].promise.state = "fulfilled"
      /\ \E script \in SecondScripts :
           procs' = Spawn(procs, i, "search_nodes", script)
      /\ UNCHANGED requests
      /\ UNCHANGED outsideExec

\* the awaited promise settled and execute runs to its return
Resume(i) ==
  LET r == requests[i]
      last == procs[i][Len(procs[i])]
  IN  /\ r.phase = "awaiting"
      /\ last.promise.state # "pending"
      /\ ~( /\ r.tool = "rag_search_workflows"
            /\ IncludeNodes(r.args)
            /\ Len(procs[i]) = 1
            /\ last.promise.state = "fulfilled" )
      /\ requests' = [requests EXCEPT ![i] =
                        [r EXCEPT !.phase = "done",
                                  !.result = Some(Continue(r.tool, r.args,
                                                           procs[i][1].promise,
                                                           last.promise))]]
      /\ UNCHANGED procs
      /\ UNCHANGED outsideExec

ExecInit ==
  /\ requests = [i \in 1..MaxRequests |-> IdleRequest]
  /\ procs = [i \in 1..MaxRequests |-> <<>>]

ExecIdle ==
  /\ requests = <<>>
  /\ procs = <<>>

---------------------------------------------------------------------------
(* The inputs drawn for the builder *)

RECURSIVE SeqsUpTo(_, _)
SeqsUpTo(S, n) ==
  IF n = 0 THEN {<<>>}
  ELSE LET shorter == SeqsUpTo(S, n - 1)
       IN  shorter \cup {Append(s, x) : s \in shorter, x \in S}

Descriptions ==
  {"", "AI chatbot with memory", "Chat", "send email", "sync data"}

TriggerInputs == {None, Some(""), Some("webhook"), Some("chat"), Some("cron")}

IntegrationInputs ==
  {None} \cup {Some(s) : s \in SeqsUpTo({"slack", "Telegram"}, MaxIntegrations)}

PatternInputs ==
  {None, Some(<<>>), Some(<<"ai_agent">>), Some(<<"microservice">>),
   Some(<<"scheduled">>), Some(<<"scheduled", "microservice">>),
   Some(<<"microservice", "scheduled", "ai_agent">>), Some(<<"rag">>)}

SuggestionPool ==
  << [type |-> "n8n-nodes-base.set", name |-> "Set",
      parameters |-> None],
     [type |-> "n8n-nodes-base.webhook", name |-> "Webhook",
      parameters |-> Some({<<"path", "hook">>})] >>

\* the list of length n that starts at pool entry first and cycles
SuggestionList(first, n) ==
  [i \in 1..n |-> SuggestionPool[((first + i) % Len(SuggestionPool)) + 1]]

SuggestedInputs ==
  {None} \cup {Some(SuggestionList(f, n)) :
                 f \in 1..Len(SuggestionPool), n \in 0..MaxSuggested}

BuilderInit ==
  /\ description \in Descriptions
  /\ requirements \in [trigger : TriggerInputs, integrations : IntegrationInputs]
  /\ context \in [patterns : PatternInputs, suggested_nodes : SuggestedInputs]
  /\ nodes = <<>>
  /\ connections = <<>>
  /\ previousNodeId = ""
  /\ nodeCount = 0
  /\ cursor = 1
  /\ pc = "start"

\* no call of the builder in progress
BuilderIdle ==
  /\ description = ""
  /\ requirements = [trigger |-> None, integrations |-> None]
  /\ context = [patterns |-> None, suggested_nodes |-> None]
  /\ nodes = <<>>
  /\ connections = <<>>
  /\ previousNodeId = ""
  /\ nodeCount = 0
  /\ cursor = 1
  /\ pc = "idle"

---------------------------------------------------------------------------
(* generate_complete_workflow: loading the examples, building the prompt *)

\* longest list of relevant workflows drawn
MaxRelevantWorkflows == 4
\* longest list of relevant nodes drawn
MaxRelevantNodes == 2

\* `${b}` of an optional boolean, and its truthiness
BoolText(o) == IF o = None THEN "undefined" ELSE IF Get(o) THEN "true" ELSE "false"
Truthy(o) == IsSome(o) /\ Get(o)

\* Array.prototype.join
RECURSIVE Join(_, _)
Join(list, sep) ==
  IF Len(list) = 0 THEN ""
  ELSE IF Len(list) = 1 THEN list[1]
  ELSE list[1] \o sep \o Join(Tail(list), sep)

\* String.prototype.endsWith and substring(0, n)
EndsWith(s, suffix) ==
  Len(s) >= Len(suffix) /\ SubSeq(s, Len(s) - Len(suffix) + 1, Len(s)) = suffix
Substring0(s, n) == SubSeq(s, 1, IF Len(s) < n THEN Len(s) ELSE n)

\* Math.round(x * 100) for a similarity x held in thousandths
RoundPercent(permille) == (permille + 5) \div 10

\* the .json files of a directory listing, as { name, workflow } entries
JsonExamples(files) ==
  LET keep == SelectSeq(files, LAMBDA f : EndsWith(f, ".json"))
  IN  [i \in DOMAIN keep |-> [name |-> keep[i]]]

\* one part of the prompt: its heading line and the lines under it
Section(heading, items) == [heading |-> heading, items |-> items]

WorkflowLine(w) ==
  "- **" \o Interpolate(w.name) \o "** (" \o ToString(RoundPercent(w.similarity))
  \o "% match) " \o Substring0(Get(w.description), 200) \o "..."

NodeLine(n) ==
  "- **" \o Interpolate(n.name) \o "** (" \o Interpolate(n.type) \o ") "
  \o Interpolate(n.description)

\* w.description.substring throws when a workflow has no description
PromptThrows(c) ==
  \E i \in DOMAIN slice0(c.relevantWorkflows, 3) : c.relevantWorkflows[i].description = None

\* mutant: the task-manager section follows the test that loads the examples
buildSystemPrompt_TaskManagerAsLoaded(c) ==
  LET top == slice0(c.relevantWorkflows, 3)
  IN  << Section("# n8n Workflow Generation System Prompt", <<c.claudeMdContent>>),
         Section("## Current Task",
                 << "Generate a " \o Interpolate(c.complexity)
                      \o " complexity n8n workflow implementation with the following requirements:",
                    "**Description**: " \o c.description,
                    "**Required Features**: " \o Join(c.features, ", "),
                    "**Output Format**: " \o Interpolate(c.outputFormat),
                    "**Use Task Manager**: " \o BoolText(c.useTaskManager) >>),
         Section("## Relevant Context", <<>>),
         Section("### Similar Workflows Found:",
                 [i \in DOMAIN top |-> WorkflowLine(top[i])]),
         Section("### Recommended Nodes:",
                 [i \in DOMAIN c.relevantNodes |-> NodeLine(c.relevantNodes[i])]) >>
      \o (IF c.outputFormat = Some("microservices")
            THEN << Section("### Microservice Pattern Examples:",
                            [i \in DOMAIN c.demoExamples |->
                               "#### " \o c.demoExamples[i].name]) >>
            ELSE <<>>)
      \o (IF c.outputFormat = Some("microservices") \/ Truthy(c.useTaskManager)
            THEN << Section("### Task Manager Integration:",
                            [i \in DOMAIN c.taskManagerExamples |->
                               "#### " \o c.taskManagerExamples[i].name]) >>
            ELSE <<>>)
      \o << Section("## Implementation Requirements",
                    << "   - " \o (IF c.outputFormat = Some("microservices")
                                     THEN "Create separate workflows for each major function"
                                     ELSE "Create a single comprehensive workflow"),
                       "   - " \o (IF Truthy(c.useTaskManager)
                                     THEN "Integrate with Task Manager for orchestration"
                                     ELSE "Use direct workflow connections") >>
                    \o [i \in DOMAIN c.features |->
                          "   - " \o c.features[i]
                          \o ": Full integration with all necessary nodes"]) >>

\* the template literal of buildSystemPrompt, part by part
buildSystemPrompt(c) ==
  LET top == slice0(c.relevantWorkflows, 3)
  IN  << Section("# n8n Workflow Generation System Prompt", <<c.claudeMdContent>>),
         Section("## Current Task",
                 << "Generate a " \o Interpolate(c.complexity)
                      \o " complexity n8n workflow implementation with the following requirements:",
                    "**Description**: " \o c.description,
                    "**Required Features**: " \o Join(c.features, ", "),
                    "**Output Format**: " \o Interpolate(c.outputFormat),
                    "**Use Task Manager**: " \o BoolText(c.useTaskManager) >>),
         Section("## Relevant Context", <<>>),
         Section("### Similar Workflows Found:",
                 [i \in DOMAIN top |-> WorkflowLine(top[i])]),
         Section("### Recommended Nodes:",
                 [i \in DOMAIN c.relevantNodes |-> NodeLine(c.relevantNodes[i])]) >>
      \o (IF c.outputFormat = Some("microservices")
            THEN << Section("### Microservice Pattern Examples:",
                            [i \in DOMAIN c.demoExamples |->
                               "#### " \o c.demoExamples[i].name]) >>
            ELSE <<>>)
      \o (IF Truthy(c.useTaskManager)
            THEN << Section("### Task Manager Integration:",
                            [i \in DOMAIN c.taskManagerExamples |->
                               "#### " \o c.taskManagerExamples[i].name]) >>
            ELSE <<>>)
      \o << Section("## Implementation Requirements",
                    << "   - " \o (IF c.outputFormat = Some("microservices")
                                     THEN "Create separate workflows for each major function"
                                     ELSE "Create a single comprehensive workflow"),
                       "   - " \o (IF Truthy(c.useTaskManager)
                                     THEN "Integrate with Task Manager for orchestration"
                                     ELSE "Use direct workflow connections") >>
                    \o [i \in DOMAIN c.features |->
                          "   - " \o c.features[i]
                          \o ": Full integration with all necessary nodes"]) >>

\* Step 3 of the handler: both example directories are read when the output
\* is microservices or the task manager is asked for; a missing directory
\* makes readdir throw and the handler return { success: false }
LoadExamples ==
  /\ promptPc = "load"
  /\ IF promptArgs.outputFormat = Some("microservices") \/ Truthy(promptArgs.useTaskManager)
       THEN IF promptArgs.demoDir = None \/ promptArgs.taskDir = None
              THEN /\ promptPc' = "failed"
                   /\ UNCHANGED <<demoExamples, taskManagerExamples>>
              ELSE /\ demoExamples' = JsonExamples(Get(promptArgs.demoDir))
                   /\ taskManagerExamples' = JsonExamples(Get(promptArgs.taskDir))
                   /\ promptPc' = "build"
       ELSE /\ promptPc' = "build"
            /\ UNCHANGED <<demoExamples, taskManagerExamples>>
  /\ UNCHANGED <<promptArgs, systemPrompt>>
  /\ UNCHANGED outsidePrompt

\* what the handler passes to buildSystemPrompt
PromptContext ==
  [description |-> promptArgs.description,
   features |-> promptArgs.features,
   relevantWorkflows |-> promptArgs.relevantWorkflows,
   relevantNodes |-> promptArgs.relevantNodes,
   demoExamples |-> demoExamples,
   taskManagerExamples |-> taskManagerExamples,
   useTaskManager |-> promptArgs.useTaskManager,
   outputFormat |-> promptArgs.outputFormat,
   complexity |-> promptArgs.complexity,
   claudeMdContent |-> "Project notes"]

\* Step 5 of the handler
BuildSystemPrompt ==
  /\ promptPc = "build"
  /\ IF PromptThrows(PromptContext)
       THEN /\ promptPc' = "failed"
            /\ UNCHANGED systemPrompt
       ELSE /\ systemPrompt' = Some(buildSystemPrompt(PromptContext))
            /\ promptPc' = "done"
  /\ UNCHANGED <<promptArgs, demoExamples, taskManagerExamples>>
  /\ UNCHANGED outsidePrompt

RelevantWorkflowPool ==
  {[name |-> Some("Support Bot"), similarity |-> 910, description |-> Some("Answers tickets")],
   [name |-> Some("Daily Report"), similarity |-> 745, description |-> Some("Mails a report")],
   [name |-> Some("Untitled"), similarity |-> 302, description |-> None]}

RelevantNodePool ==
  {[name |-> Some("Slack"), type |-> Some("n8n-nodes-base.slack"),
    description |-> Some("Send messages")],
   [name |-> Some("Set"), type |-> Some("n8n-nodes-base.set"), description |-> None]}

DirectoryInputs == {None, Some(<<>>), Some(<<"README.md", "orchestrator.json">>)}

PromptInit ==
  /\ promptArgs \in
       [description : {"support desk"},
        features : {<<"chat">>, <<"chat", "email">>},
        useTaskManager : {None, Some(FALSE), Some(TRUE)},
        outputFormat : {None, Some("single"), Some("microservices")},
        complexity : {None},
        relevantWorkflows : SeqsUpTo(RelevantWorkflowPool, MaxRelevantWorkflows),
        relevantNodes : SeqsUpTo(RelevantNodePool, MaxRelevantNodes),
        demoDir : DirectoryInputs,
        taskDir : {Some(<<"tasks.json">>)}]
  /\ demoExamples = <<>>
  /\ taskManagerExamples = <<>>
  /\ systemPrompt = None
  /\ promptPc = "load"

PromptIdle ==
  /\ promptArgs = <<>>
  /\ demoExamples = <<>>
  /\ taskManagerExamples = <<>>
  /\ systemPrompt = None
  /\ promptPc = "idle"

Init ==
  /\ BuilderInit /\ StepsIdle /\ TypesIdle /\ InsightsIdle /\ SynthIdle /\ ExecIdle
  /\ PromptIdle

Next ==
  \/ BuildTrigger
  \/ BuildAgent
  \/ SkipAgent
  \/ BuildIntegration
  \/ EndIntegrations
  \/ BuildSuggested
  \/ ReturnStructure

Spec == Init /\ [][Next]_vars

\* calls of generateImplementationSteps
StepsSpecInit ==
  StepsInit /\ BuilderIdle /\ TypesIdle /\ InsightsIdle /\ SynthIdle /\ ExecIdle
  /\ PromptIdle
StepsNext == StepsOpen \/ StepsFeature \/ StepsClose
SpecSteps == StepsSpecInit /\ [][StepsNext]_vars

\* calls of the type-table lookups
TypesSpecInit ==
  TypesInit /\ BuilderIdle /\ StepsIdle /\ InsightsIdle /\ SynthIdle /\ ExecIdle
  /\ PromptIdle
TypesNext == ResolveTrigger \/ ResolveIntegration
SpecTypes == TypesSpecInit /\ [][TypesNext]_vars

\* calls of the insight synthesizer
InsightsSpecInit ==
  InsightsInit /\ BuilderIdle /\ StepsIdle /\ TypesIdle /\ SynthIdle /\ ExecIdle
  /\ PromptIdle
InsightsNext == SuggestApproach
SpecInsights == InsightsSpecInit /\ [][InsightsNext]_vars

\* tool requests in flight on the handlers
ExecSpecInit ==
  ExecInit /\ BuilderIdle /\ StepsIdle /\ TypesIdle /\ InsightsIdle /\ SynthIdle
  /\ PromptIdle
Slots == 1..MaxRequests
ExecNext ==
  \/ \E i \in Slots : StartRequest(i)
  \/ \E i \in Slots : ResumeSearchNodes(i)
  \/ \E i \in Slots : Resume(i)
  \/ \E i \in Slots : \E k \in DOMAIN procs[i] : StdoutData(i, k)
  \/ \E i \in Slots : \E k \in DOMAIN procs[i] : StderrData(i, k)
  \/ \E i \in Slots : \E k \in DOMAIN procs[i] : ProcError(i, k)
  \/ \E i \in Slots : \E k \in DOMAIN procs[i] : ProcClose(i, k)
SpecExec == ExecSpecInit /\ [][ExecNext]_vars

\* the subprocesses of a request: search_workflows, then search_nodes at most
Calls == 1..2

\* a subprocess that was spawned writes what it has to write and ends: its
\* pending 'data' events and its 'close' event are delivered
SubprocessRuns(i, k) ==
  /\ WF_vars(k \in DOMAIN procs[i] /\ StdoutData(i, k))
  /\ WF_vars(k \in DOMAIN procs[i] /\ StderrData(i, k))
  /\ WF_vars(k \in DOMAIN procs[i] /\ ProcClose(i, k))

SpecExecFair ==
  /\ ExecSpecInit /\ [][ExecNext]_vars
  /\ \A i \in Slots : \A k \in Calls : SubprocessRuns(i, k)

\* calls of identifyKeyComponents and getConsiderations
SynthSpecInit ==
  SynthInit /\ BuilderIdle /\ StepsIdle /\ TypesIdle /\ InsightsIdle /\ ExecIdle
  /\ PromptIdle
SynthNext == IdentifyKeyComponents \/ GetConsiderations
SpecSynth == SynthSpecInit /\ [][SynthNext]_vars

\* calls of handleGenerateCompleteWorkflow, from the loading of the examples
PromptSpecInit ==
  PromptInit /\ BuilderIdle /\ StepsIdle /\ TypesIdle /\ InsightsIdle /\ SynthIdle
  /\ ExecIdle
PromptNext == LoadExamples \/ BuildSystemPrompt
SpecPrompt == PromptSpecInit /\ [][PromptNext]_vars

---------------------------------------------------------------------------
(* Properties of the builder, checked under Spec *)

NodeIds == {nodes[i].id : i \in DOMAIN nodes}

\* every edge of the connection map, as <<source id, target id, port, slot>>
EdgeSet ==
  UNION { UNION { { <<src, connections[src].main[k][j].node, k, j>> :
                      j \in DOMAIN connections[src].main[k] } :
                  k \in DOMAIN connections[src].main } :
          src \in DOMAIN connections }

EdgesInto(id) == {e \in EdgeSet : e[2] = id}
EdgesFrom(id) == {e \in EdgeSet : e[1] = id}

HasPrefix(s, p) == Len(s) >= Len(p) /\ SubSeq(s, 1, Len(p)) = p

\* the text after the last "_" of an id
RECURSIVE IdSuffix(_)
IdSuffix(id) ==
  IF Len(id) = 0 \/ CharAt(id, Len(id)) = "_" THEN ""
  ELSE IdSuffix(SubSeq(id, 1, Len(id) - 1)) \o CharAt(id, Len(id))

\* C1: the returned graph is a simple path: the first node is trigger_1 and
\* no other node is a trigger node id, node i (i > 1) has exactly one incoming
\* edge and it comes from node i-1, every source has at most one outgoing
\* edge, every edge target is a node id, the last node has no outgoing edge,
\* and there are |nodes| - 1 edges.
C1_SimplePath ==
  pc = "done" =>
    /\ Len(nodes) >= 1
    /\ nodes[1].id = "trigger_1"
    /\ \A i \in 2..Len(nodes) : ~HasPrefix(nodes[i].id, "trigger_")
    /\ EdgesInto(nodes[1].id) = {}
    /\ \A i \in 2..Len(nodes) :
         /\ Cardinality(EdgesInto(nodes[i].id)) = 1
         /\ \A e \in EdgesInto(nodes[i].id) : e[1] = nodes[i - 1].id
    /\ \A src \in DOMAIN connections : Cardinality(EdgesFrom(src)) <= 1
    /\ \A e \in EdgeSet : e[2] \in NodeIds /\ e[1] \in NodeIds
    /\ EdgesFrom(nodes[Len(nodes)].id) = {}
    /\ Cardinality(EdgeSet) = Len(nodes) - 1

\* a returned chain with an agent, an integration and suggested nodes
C1_Witness ==
  /\ pc = "done"
  /\ Len(nodes) = 6
  /\ nodes[2].id = "agent_2"
  /\ Cardinality(EdgeSet) = 5

\* C2: at every point of a call the node ids are pairwise distinct, and once
\* a node has been appended nodeCount is the number of nodes emitted and the
\* numeric suffix of the id assigned last.
C2_UniqueIds ==
  /\ \A i, j \in DOMAIN nodes : nodes[i].id = nodes[j].id => i = j
  /\ pc # "start" =>
       /\ nodeCount = Len(nodes)
       /\ IdSuffix(nodes[Len(nodes)].id) = ToString(nodeCount)

\* the most nodes the drawn inputs give: agent, integrations, three suggestions
C2_Witness ==
  /\ pc = "done"
  /\ IsSome(requirements.integrations)
  /\ Len(nodes) = 2 + Len(Get(requirements.integrations)) + 3
  /\ Len(Get(requirements.integrations)) >= 2
  /\ IsSome(context.suggested_nodes)
  /\ Len(Get(context.suggested_nodes)) > 3

\* the claim's agent condition, stated on the text of the description
ContainsIgnoringCase(s, word) ==
  \E i \in 1..Len(s) : \E j \in i..Len(s) : toLowerCase(SubSeq(s, i, j)) = word

ClaimedAgent ==
  \/ IsSome(context.patterns) /\ "ai_agent" \in {Get(context.patterns)[i] :
                                                  i \in DOMAIN Get(context.patterns)}
  \/ ContainsIgnoringCase(description, "ai")
  \/ ContainsIgnoringCase(description, "chat")

Min(a, b) == IF a < b THEN a ELSE b

\* C3: the node sequence is the trigger, then the agent node agent_2 iff the
\* agent condition holds, then one "{integration} Integration" node per
\* integration in order, then one node for each of the first min(3, n)
\* suggestions in order with the suggestion's type, name and parameters; and
\* the "AI chatbot with memory" example gives trigger_1 -> agent_2 -> node_3.
C3_NodeSequence ==
  pc = "done" =>
    LET a    == IF ClaimedAgent THEN 1 ELSE 0
        ints == IF IsSome(requirements.integrations)
                  THEN Get(requirements.integrations) ELSE <<>>
        sugg == IF IsSome(context.suggested_nodes)
                  THEN Get(context.suggested_nodes) ELSE <<>>
        k    == Min(3, Len(sugg))
    IN  /\ Len(nodes) = 1 + a + Len(ints) + k
        /\ nodes[1].id = "trigger_1"
        /\ a = 1 => /\ nodes[2].id = "agent_2"
                    /\ nodes[2].name = "AI Agent"
                    /\ nodes[2].type = JsStr("@n8n/n8n-nodes-langchain.agent")
        /\ \A i \in 1..Len(nodes) : HasPrefix(nodes[i].id, "agent_") => (a = 1 /\ i = 2)
        /\ \A i \in 1..Len(ints) :
             /\ nodes[1 + a + i].name = ints[i] \o " Integration"
             /\ nodes[1 + a + i].id = "node_" \o ToString(1 + a + i)
        /\ \A j \in 1..k :
             LET n == nodes[1 + a + Len(ints) + j]
             IN  /\ n.id = "node_" \o ToString(1 + a + Len(ints) + j)
                 /\ n.type = JsStr(sugg[j].type)
                 /\ n.name = sugg[j].name
                 /\ n.parameters = IF IsSome(sugg[j].parameters)
                                     THEN Get(sugg[j].parameters) ELSE {}
        /\ ( /\ description = "AI chatbot with memory"
             /\ requirements = [trigger |-> None, integrations |-> Some(<<"slack">>)]
             /\ context = [patterns |-> Some(<<"ai_agent">>), suggested_nodes |-> None] )
           => /\ [i \in DOMAIN nodes |-> nodes[i].id] = <<"trigger_1", "agent_2", "node_3">>
              /\ nodes[1].name = "manual Trigger"
              /\ nodes[3].name = "slack Integration"
              /\ EdgeSet = { <<"trigger_1", "agent_2", 1, 1>>,
                             <<"agent_2", "node_3", 1, 1>> }

\* the example of the claim, returned
C3_Witness ==
  /\ pc = "done"
  /\ description = "AI chatbot with memory"
  /\ requirements = [trigger |-> None, integrations |-> Some(<<"slack">>)]
  /\ context = [patterns |-> Some(<<"ai_agent">>), suggested_nodes |-> None]
  /\ Len(nodes) = 3

PatternSet ==
  IF IsSome(context.patterns)
    THEN {Get(context.patterns)[i] : i \in DOMAIN Get(context.patterns)} ELSE {}

InferredKind ==
  IF "microservice" \in PatternSet THEN "webhook"
  ELSE IF "scheduled" \in PatternSet THEN "schedule"
  ELSE "manual"

\* the kind the trigger node was built from, read off its name "{kind} Trigger"
UsedKind == SubSeq(nodes[1].name, 1, Len(nodes[1].name) - Len(" Trigger"))

\* C8 as stated: the kind is requirements.trigger whenever the field is
\* present, and inferred from the patterns only when it is absent.
C8_AsStated ==
  pc # "start" =>
    UsedKind = IF IsSome(requirements.trigger)
                 THEN Get(requirements.trigger) ELSE InferredKind

\* C8 (amended): the kind is requirements.trigger whenever the field is
\* present and not the empty string; when it is absent or empty the kind is
\* inferred from context.patterns: webhook if they contain "microservice",
\* else schedule if they contain "scheduled", else manual.
C8_TriggerKind ==
  pc # "start" =>
    UsedKind = IF IsSome(requirements.trigger) /\ Get(requirements.trigger) # ""
                 THEN Get(requirements.trigger) ELSE InferredKind

\* an empty trigger with both patterns present: the kind is inferred as webhook
C8_Witness ==
  /\ pc = "done"
  /\ requirements.trigger = Some("")
  /\ {"microservice", "scheduled"} \subseteq PatternSet
  /\ nodes[1].name = "webhook Trigger"

---------------------------------------------------------------------------
(* Properties of the implementation-step generator, checked under SpecSteps *)

TaskManagerCount == IF useTaskManager THEN 2 ELSE 0

\* the per-feature, task-manager and closing steps of the microservices
\* branch, following `opening` fixed steps
MicroservicesTail(opening) ==
  /\ \A i \in 1..Len(features) :
       steps[opening + i] =
         "Implement " \o features[i] \o " microservice with webhook trigger and response"
  /\ useTaskManager =>
       /\ steps[opening + Len(features) + 1] =
            "Integrate Task Manager for workflow orchestration"
       /\ steps[opening + Len(features) + 2] =
            "Add task creation and monitoring capabilities"
  /\ steps[Len(steps) - 1] = "Connect microservices via HTTP requests"
  /\ steps[Len(steps)] = "Add centralized logging and error handling"

\* C5 as stated: for "microservices" the list is one orchestrator step, one
\* step per feature, two task-manager steps iff useTaskManager, two closing
\* steps and nothing else: 1 + |features| + (2 or 0) + 2 entries.
C5_AsStated ==
  (stepsPc = "done" /\ outputFormat = Some("microservices")) =>
    /\ Len(steps) = 1 + Len(features) + TaskManagerCount + 2
    /\ steps[1] = "Create main orchestrator workflow with webhook trigger"
    /\ MicroservicesTail(1)

\* C5 (amended): for "microservices" the list is the orchestrator-creation
\* step, then one "design separate microservice workflows" step, then one
\* microservice step per feature in input order, two task-manager steps iff
\* useTaskManager, then the two closing steps: 2 + |features| + (2 or 0) + 2
\* entries, so steps(["slack","telegram"], "microservices", true) has 8.
C5_MicroservicesSteps ==
  (stepsPc = "done" /\ outputFormat = Some("microservices")) =>
    /\ Len(steps) = 2 + Len(features) + TaskManagerCount + 2
    /\ steps[1] = "Create main orchestrator workflow with webhook trigger"
    /\ steps[2] = "Design separate microservice workflows for each feature"
    /\ MicroservicesTail(2)
    /\ (features = <<"slack", "telegram">> /\ useTaskManager) => Len(steps) = 8

\* the example of the claim, returned
C5_Witness ==
  /\ stepsPc = "done"
  /\ outputFormat = Some("microservices")
  /\ features = <<"slack", "telegram">>
  /\ useTaskManager
  /\ Len(steps) = 8

\* C6: for "single" the list is the trigger-creation step, one step per
\* feature in input order, then the error-handling, documentation and testing
\* steps, whatever useTaskManager is; with no features it is the four fixed
\* steps.
C6_SingleSteps ==
  (stepsPc = "done" /\ outputFormat = Some("single")) =>
    /\ steps = <<"Create main workflow with appropriate trigger">>
               \o [i \in 1..Len(features) |->
                     "Add " \o features[i] \o " integration nodes and configuration"]
               \o <<"Implement error handling and logging",
                    "Add documentation via Sticky Notes",
                    "Test all connections and data flow">>
    /\ features = <<>> => Len(steps) = 4

\* a single-workflow call with useTaskManager set and two features, returned
C6_Witness ==
  /\ stepsPc = "done"
  /\ outputFormat = Some("single")
  /\ useTaskManager
  /\ Len(features) = 2
  /\ Len(steps) = 6

\* steps([], "single", false), returned
C6_WitnessEmpty ==
  /\ stepsPc = "done"
  /\ outputFormat = Some("single")
  /\ ~useTaskManager
  /\ features = <<>>
  /\ Len(steps) = 4

---------------------------------------------------------------------------
(* Properties of the type tables, checked under SpecTypes *)

KnownTriggerKeys == {"webhook", "schedule", "manual", "chat"}
KnownIntegrationKeys == {"slack", "telegram", "email", "openai", "supabase", "http"}

IsNodeTypeString(r) == r.t = "string" /\ Len(r.v) > 0

\* C7: resolving a trigger key gives the table entry when the key is one of
\* the known keys exactly and the manual-trigger type otherwise; resolving an
\* integration key gives the table entry of the lower-cased key when that is
\* a known key and the HTTP-request type otherwise; every result is a
\* node-type string.
C7_TotalResolution ==
  /\ triggerResult # NotCalled =>
       /\ IsNodeTypeString(triggerResult)
       /\ triggerResult.v = IF triggerKey \in KnownTriggerKeys
                              THEN triggerMap[triggerKey]
                              ELSE "n8n-nodes-base.manualTrigger"
  /\ integrationResult # NotCalled =>
       /\ IsNodeTypeString(integrationResult)
       /\ integrationResult.v =
            IF toLowerCase(integrationKey) \in KnownIntegrationKeys
              THEN integrationMap[toLowerCase(integrationKey)]
              ELSE "n8n-nodes-base.httpRequest"

\* the same statement for the keys that name no member of Object.prototype
C7_ExceptInheritedKeys ==
  (triggerKey \notin ObjectPrototypeKeys /\ toLowerCase(integrationKey) \notin ObjectPrototypeKeys)
    => C7_TotalResolution

---------------------------------------------------------------------------
(* Properties of the insight synthesizer, checked under SpecInsights *)

RecommendedSet ==
  IF IsSome(insights) /\ IsSome(Get(insights).recommended_patterns)
    THEN {Get(Get(insights).recommended_patterns)[i] :
            i \in DOMAIN Get(Get(insights).recommended_patterns)}
    ELSE {}

MatchCount ==
  IF IsSome(insights) /\ IsSome(Get(insights).workflow_matches)
    THEN Len(Get(Get(insights).workflow_matches)) ELSE 0

\* C10: the approach is the microservice text if the recommended patterns
\* contain "microservice"; else the AI-agent text if they contain "ai_agent";
\* else the RAG text if they contain "rag"; else the text naming the first
\* workflow match if there is one; else the generic text.
C10_FirstMatch ==
  IsSome(approach) =>
    Get(approach) =
      CASE "microservice" \in RecommendedSet ->
             "Use a microservice pattern with webhook triggers for modular design."
        [] "microservice" \notin RecommendedSet /\ "ai_agent" \in RecommendedSet ->
             "Implement an AI agent with tool integration for intelligent automation."
        [] {"microservice", "ai_agent"} \cap RecommendedSet = {} /\ "rag" \in RecommendedSet ->
             "Use RAG pattern for context-aware responses with vector database integration."
        [] {"microservice", "ai_agent", "rag"} \cap RecommendedSet = {} /\ MatchCount > 0 ->
             "Consider adapting the \""
               \o Get(Get(insights).workflow_matches)[1].name
               \o "\" workflow as a starting point."
        [] OTHER -> "Start with a simple webhook trigger and build incrementally."

\* several conditions hold at once: ai_agent is listed before microservice and
\* there are workflow matches, and the microservice text is returned
C10_Witness ==
  /\ IsSome(approach)
  /\ IsSome(insights)
  /\ Get(insights).recommended_patterns = Some(<<"ai_agent", "microservice">>)
  /\ MatchCount = 2
  /\ Get(approach) = "Use a microservice pattern with webhook triggers for modular design."

---------------------------------------------------------------------------
(* Properties of the requests in flight, checked under SpecExec *)

\* a subprocess run failed: it exited with a non-zero code (or could not be
\* spawned), or it exited with 0 and what it printed is no JSON document
RunFailed(p) ==
  \/ p.script.code # 0
  \/ p.script.spawnError
  \/ ~IsJson(Concat(p.script.stdout))

RunMalformed(p) ==
  p.script.code = 0 /\ ~p.script.spawnError /\ ~IsJson(Concat(p.script.stdout))

RetrievalFailed(i) == \E k \in DOMAIN procs[i] : RunFailed(procs[i][k])

\* C4: whenever the retrieval process of a request failed, by a non-zero exit
\* or by malformed output with exit code 0, the finished request's result is
\* an error result (isError = true).
C4_FailureIsError ==
  \A i \in DOMAIN requests :
    (requests[i].phase = "done" /\ RetrievalFailed(i))
      => Get(requests[i].result).isError

\* the part of C4 the code keeps: a non-zero exit or a failed spawn always
\* gives an error result, and so does any failed retrieval of the search tool
C4_NonZeroExitIsError ==
  \A i \in DOMAIN requests :
    ( /\ requests[i].phase = "done"
      /\ \/ \E k \in DOMAIN procs[i] : ~RunMalformed(procs[i][k]) /\ RunFailed(procs[i][k])
         \/ requests[i].tool = "rag_search_workflows" /\ RetrievalFailed(i) )
      => Get(requests[i].result).isError

\* what executePythonScript settles to for a subprocess on its own: fixed by
\* what the subprocess printed, its exit code, and the event that came first
OutcomeAlone(p) ==
  IF p.settledBy = "error"
    THEN Rejected("Failed to start Python script: spawn python3 ENOENT")
  ELSE IF p.script.code # 0
    THEN Rejected("Python script failed with code " \o ToString(p.script.code)
                  \o ": " \o Concat(p.script.stderr))
  ELSE IF Concat(p.script.stdout) \in DOMAIN JsonDocuments
    THEN Fulfilled(JsonDocuments[Concat(p.script.stdout)])
  ELSE Fulfilled(JsonString(Concat(p.script.stdout)))

\* C9: under every interleaving of the subprocess events of the requests in
\* flight, the result of a finished request is the one its own arguments and
\* its own subprocesses' output give when it runs alone, and every subprocess
\* that has received nothing holds empty buffers.
C9_Isolation ==
  \A i \in DOMAIN requests :
    /\ requests[i].phase = "done" =>
         Get(requests[i].result) =
           Continue(requests[i].tool, requests[i].args,
                    OutcomeAlone(procs[i][1]),
                    OutcomeAlone(procs[i][Len(procs[i])]))
    /\ \A k \in DOMAIN procs[i] :
         /\ procs[i][k].output = Concat(SubSeq(procs[i][k].script.stdout, 1, procs[i][k].sent))
         /\ procs[i][k].errorOutput =
              Concat(SubSeq(procs[i][k].script.stderr, 1, procs[i][k].errSent))

\* the second request ran from start to a successful result while the first,
\* on the same handler, was still in the middle of receiving its output
C9_Witness ==
  /\ requests[1].phase = "awaiting"
  /\ requests[1].tool = "rag_generate_workflow"
  /\ procs[1][1].sent = 1
  /\ Len(procs[1][1].script.stdout) = 2
  /\ requests[2].phase = "done"
  /\ requests[2].tool = "rag_generate_workflow"
  /\ Len(procs[2][1].script.stdout) = 2
  /\ ~Get(requests[2].result).isError

---------------------------------------------------------------------------
(* Properties of the insight synthesizer's lists, checked under SpecSynth *)

AdvancedNote == "This is a complex workflow that may require multiple sub-workflows"
AgentNote == "Configure AI agent with appropriate tools and memory management"
DatabaseNote == "Set up database credentials and schema before implementation"
ReliabilityNote == "Consider error handling and retry logic for reliability"
LoggingNote == "Implement logging for debugging and monitoring"

\* where x stands in list (0 when it is not there), and whether it is there
IndexOf(list, x) ==
  IF \E i \in DOMAIN list : list[i] = x
    THEN CHOOSE i \in DOMAIN list : list[i] = x
    ELSE 0
Has(list, x) == IndexOf(list, x) > 0

\* the suggested nodes of the insights, and the signals read from them
SynthSuggestions ==
  IF IsSome(Get(synthInsights).node_suggestions)
    THEN Get(Get(synthInsights).node_suggestions) ELSE <<>>
TypeSignal(words) ==
  \E i \in DOMAIN SynthSuggestions :
    /\ SynthSuggestions[i].type # None
    /\ \E w \in words : includes(SynthSuggestions[i].type[1], w)
AdvancedSignal == Get(synthInsights).complexity_estimate = <<"advanced">>
AgentSignal ==
  /\ Get(synthInsights).recommended_patterns # None
  /\ "ai_agent" \in {Get(synthInsights).recommended_patterns[1][j] :
                       j \in DOMAIN Get(synthInsights).recommended_patterns[1]}
DatabaseSignal == TypeSignal({"database"})

\* the entries of list that are in order, in the order of order, once each
InFixedOrder(list, order) ==
  /\ \A i \in DOMAIN list : \E j \in DOMAIN order : list[i] = order[j]
  /\ \A i, j \in DOMAIN list :
       i < j => IndexOf(order, list[i]) < IndexOf(order, list[j])

\* C11: getConsiderations returns between 2 and 5 entries, ending with the
\* reliability note and then the logging note; before them, in the fixed order
\* advanced / AI-agent / database, stands each conditional note exactly when its
\* condition holds; "advanced" with no AI or database signal gives 3 entries.
C11_Considerations ==
  IsSome(considerations) =>
    LET list == Get(considerations)
        n == Len(list)
    IN  /\ n \in 2..5
        /\ list[n - 1] = ReliabilityNote
        /\ list[n] = LoggingNote
        /\ InFixedOrder(SubSeq(list, 1, n - 2), <<AdvancedNote, AgentNote, DatabaseNote>>)
        /\ Has(SubSeq(list, 1, n - 2), AdvancedNote) <=> AdvancedSignal
        /\ Has(SubSeq(list, 1, n - 2), AgentNote) <=> AgentSignal
        /\ Has(SubSeq(list, 1, n - 2), DatabaseNote) <=> DatabaseSignal
        /\ (AdvancedSignal /\ ~AgentSignal /\ ~DatabaseSignal) =>
             list = <<AdvancedNote, ReliabilityNote, LoggingNote>>

\* all three conditional notes were pushed: the list has its full five entries
C11_Witness ==
  /\ IsSome(considerations)
  /\ Len(Get(considerations)) = 5
  /\ AdvancedSignal /\ AgentSignal /\ DatabaseSignal

\* the scenario of the specification: "advanced", no other signal, 3 entries
C11_WitnessAdvancedOnly ==
  /\ IsSome(considerations)
  /\ AdvancedSignal /\ ~AgentSignal /\ ~DatabaseSignal
  /\ Len(Get(considerations)) = 3

TriggerEntry == "Webhook or manual trigger"
AIEntry == "AI/LLM integration"
DatabaseEntry == "Database storage"
MessagingEntry == "Messaging integration"
GroupEntries == <<TriggerEntry, AIEntry, DatabaseEntry, MessagingEntry>>

TriggerSignal == TypeSignal({"trigger", "webhook"})
AISignal == TypeSignal({"ai", "agent", "openai"})
StorageSignal == TypeSignal({"supabase", "postgres"})
MessagingSignal == TypeSignal({"telegram", "slack", "email"})

\* how many suggested nodes are named at the end of the key-components list
NamedCount == IF Len(SynthSuggestions) < 3 THEN Len(SynthSuggestions) ELSE 3

\* the end of the list names the first min(3, n) suggested nodes, in order
NamesLast(list) ==
  /\ Len(list) >= NamedCount
  /\ \A i \in 1..NamedCount :
       list[Len(list) - NamedCount + i] =
         (IF SynthSuggestions[i].name = None THEN "undefined"
          ELSE SynthSuggestions[i].name[1]) \o " node"

\* C12 as stated: every group entry, the trigger/webhook one included, is in
\* the list exactly when some suggested node's type contains one of the
\* group's substrings.
C12_AsStated ==
  IsSome(keyComponents) =>
    LET list == Get(keyComponents)
        head == SubSeq(list, 1, Len(list) - NamedCount)
    IN  /\ NamesLast(list)
        /\ InFixedOrder(head, GroupEntries)
        /\ Has(head, TriggerEntry) <=> TriggerSignal
        /\ Has(head, AIEntry) <=> AISignal
        /\ Has(head, DatabaseEntry) <=> StorageSignal
        /\ Has(head, MessagingEntry) <=> MessagingSignal

\* C12 amended: the trigger entry is in the list exactly when NO suggested
\* node's type contains "trigger" or "webhook"; the other three group entries
\* are there exactly when some type contains one of the group's substrings;
\* the entries keep the group order and are followed by "<name> node" for the
\* first min(3, n) suggested nodes in the given order.
C12_KeyComponents ==
  IsSome(keyComponents) =>
    LET list == Get(keyComponents)
        head == SubSeq(list, 1, Len(list) - NamedCount)
    IN  /\ NamesLast(list)
        /\ InFixedOrder(head, GroupEntries)
        /\ Has(head, TriggerEntry) <=> ~TriggerSignal
        /\ Has(head, AIEntry) <=> AISignal
        /\ Has(head, DatabaseEntry) <=> StorageSignal
        /\ Has(head, MessagingEntry) <=> MessagingSignal

\* four suggestions with a webhook among them: no trigger entry, the three
\* other group entries, then three names
C12_Witness ==
  /\ IsSome(keyComponents)
  /\ Len(SynthSuggestions) = 4
  /\ TriggerSignal /\ AISignal /\ StorageSignal /\ MessagingSignal
  /\ Len(Get(keyComponents)) = 6

---------------------------------------------------------------------------
(* Properties of the formatted retrieval context, checked under SpecExec *)

\* request i finished with a normal result after a retrieval that succeeded
Answered(i) ==
  /\ requests[i].phase = "done"
  /\ ~RetrievalFailed(i)
  /\ ~Get(requests[i].result).isError

AnsweredBy(i, tool) == Answered(i) /\ requests[i].tool = tool

\* what the k-th retrieval call of request i resolved to
Retrieved(i, k) == procs[i][k].promise.value

Payload(i) == Get(requests[i].result).payload

\* the name fields of a list of items, in the order of the list
NamesOf(items) == [j \in DOMAIN items |-> items[j].name]

\* the names of an optional collection of a retrieved object
RetrievedNames(value, field) ==
  IF Field(value, field) = None THEN <<>> ELSE NamesOf(Field(value, field)[1])

\* Workflow matches and node suggestions stand in the response in the order
\* of the retrieval, none dropped, on all three paths.
C13_OrderKept ==
  \A i \in DOMAIN requests :
    /\ AnsweredBy(i, "rag_generate_workflow") =>
         /\ Payload(i).context.relevantWorkflows # None =>
              NamesOf(Payload(i).context.relevantWorkflows[1])
                = RetrievedNames(Retrieved(i, 1), "relevant_workflows")
         /\ Payload(i).context.suggestedNodes # None =>
              NamesOf(Payload(i).context.suggestedNodes[1])
                = RetrievedNames(Retrieved(i, 1), "suggested_nodes")
    /\ AnsweredBy(i, "rag_search_workflows") =>
         /\ NamesOf(Payload(i).workflowMatches) = NamesOf(Retrieved(i, 1).arr)
         /\ Payload(i).suggestedNodes # None =>
              NamesOf(Payload(i).suggestedNodes[1]) = NamesOf(Retrieved(i, 2).arr)
    /\ AnsweredBy(i, "rag_get_insights") =>
         /\ NamesOf(Payload(i).workflowMatches)
              = RetrievedNames(Retrieved(i, 1), "workflow_matches")
         /\ NamesOf(Payload(i).nodeSuggestions)
              = RetrievedNames(Retrieved(i, 1), "node_suggestions")

\* No collection and no patterns sub-field of the response of
\* rag_generate_workflow is left undefined.
GenerateContextDefaulted(i) ==
  /\ Payload(i).context.relevantWorkflows # None
  /\ Payload(i).context.suggestedNodes # None
  /\ Payload(i).context.patterns # None
  /\ \A j \in DOMAIN RetrievedNames(Retrieved(i, 1), "relevant_workflows") :
       /\ j \in DOMAIN Payload(i).context.relevantWorkflows[1]
       /\ Payload(i).context.relevantWorkflows[1][j].patterns # None

\* C13: in every tool response the formatted retrieval context keeps the
\* workflow matches and node suggestions in the order of the retrieval, and
\* every missing optional sub-field and collection is an empty collection, not
\* undefined, on the generation path as on the search and insight paths.
C13_FormattedContext ==
  /\ C13_OrderKept
  /\ \A i \in DOMAIN requests :
       AnsweredBy(i, "rag_generate_workflow") => GenerateContextDefaulted(i)

---------------------------------------------------------------------------
(* Properties of the generation prompt, checked under SpecPrompt *)

BackgroundHeading == "# n8n Workflow Generation System Prompt"
TaskHeading == "## Current Task"
WorkflowsHeading == "### Similar Workflows Found:"
NodesHeading == "### Recommended Nodes:"
MicroserviceHeading == "### Microservice Pattern Examples:"
TaskManagerHeading == "### Task Manager Integration:"
RequirementsHeading == "## Implementation Requirements"

\* the fixed order of the sections the prompt may hold
SectionOrder ==
  <<BackgroundHeading, TaskHeading, WorkflowsHeading, NodesHeading,
    MicroserviceHeading, TaskManagerHeading, RequirementsHeading>>

\* the headings of the prompt that are among the seven, in prompt order
PromptHeadings ==
  SelectSeq([i \in DOMAIN Get(systemPrompt) |-> Get(systemPrompt)[i].heading],
            LAMBDA h : \E j \in DOMAIN SectionOrder : SectionOrder[j] = h)

\* the lines under a heading of the prompt (<<>> when the section is absent)
SectionItems(h) ==
  IF Has(PromptHeadings, h)
    THEN Get(systemPrompt)[CHOOSE i \in DOMAIN Get(systemPrompt) :
                             Get(systemPrompt)[i].heading = h].items
    ELSE <<>>

ListedWorkflows ==
  IF Len(promptArgs.relevantWorkflows) < 3
    THEN Len(promptArgs.relevantWorkflows) ELSE 3

\* C14: in the assembled prompt the microservice section is present exactly
\* when the output mode is "microservices", the task-manager section exactly
\* when useTaskManager is requested; the first min(3, n) relevant workflows
\* are listed in retrieval order and all suggested nodes are listed; the
\* sections stand in the order background, task, workflows, nodes,
\* microservice section, task-manager section, requirements.
C14_PromptSections ==
  IsSome(systemPrompt) =>
    /\ Has(PromptHeadings, MicroserviceHeading)
         <=> promptArgs.outputFormat = <<"microservices">>
    /\ Has(PromptHeadings, TaskManagerHeading)
         <=> promptArgs.useTaskManager = <<TRUE>>
    /\ \A h \in {BackgroundHeading, TaskHeading, WorkflowsHeading, NodesHeading,
                 RequirementsHeading} : Has(PromptHeadings, h)
    /\ InFixedOrder(PromptHeadings, SectionOrder)
    /\ Len(SectionItems(WorkflowsHeading)) = ListedWorkflows
    /\ \A i \in 1..ListedWorkflows :
         HasPrefix(SectionItems(WorkflowsHeading)[i],
                   "- **" \o promptArgs.relevantWorkflows[i].name[1] \o "**")
    /\ Len(SectionItems(NodesHeading)) = Len(promptArgs.relevantNodes)
    /\ \A i \in DOMAIN promptArgs.relevantNodes :
         HasPrefix(SectionItems(NodesHeading)[i],
                   "- **" \o promptArgs.relevantNodes[i].name[1] \o "**")

\* four workflows were retrieved and three are listed; the output is a single
\* workflow with the task manager: only the task-manager section is present
C14_Witness ==
  /\ IsSome(systemPrompt)
  /\ Len(promptArgs.relevantWorkflows) = 4
  /\ Len(SectionItems(WorkflowsHeading)) = 3
  /\ Len(promptArgs.relevantNodes) = 2
  /\ promptArgs.outputFormat = <<"single">>
  /\ promptArgs.useTaskManager = <<TRUE>>
  /\ Has(PromptHeadings, TaskManagerHeading)
  /\ ~Has(PromptHeadings, MicroserviceHeading)

\* microservices without the task manager: only the microservice section
C14_WitnessMicroservices ==
  /\ IsSome(systemPrompt)
  /\ promptArgs.outputFormat = <<"microservices">>
  /\ promptArgs.useTaskManager # <<TRUE>>
  /\ Has(PromptHeadings, MicroserviceHeading)
  /\ ~Has(PromptHeadings, TaskManagerHeading)

---------------------------------------------------------------------------
(* Positions of the built nodes, checked under Spec *)

\* C15 as stated: the trigger is at (250, 300) and every later node, the
\* AI-agent node included, at (250 + 200 * nodeCount, 300), nodeCount being
\* the running count when the node is added (its place in the list).
C15_AsStated ==
  \A i \in DOMAIN nodes :
    nodes[i].position = IF i = 1 THEN <<250, 300>> ELSE <<250 + 200 * i, 300>>

\* C15 amended: the trigger is at (250, 300), the AI-agent node at the fixed
\* place (450, 300), and every integration and suggested node at
\* (250 + 200 * nodeCount, 300); all nodes share y = 300.
C15_Positions ==
  \A i \in DOMAIN nodes :
    /\ nodes[i].position[2] = 300
    /\ nodes[i].position[1] =
         IF i = 1 THEN 250
         ELSE IF HasPrefix(nodes[i].id, "agent_") THEN 450
         ELSE 250 + 200 * i

\* a finished structure with the agent second and integration and suggested
\* nodes after it: x runs 250, 450, 850, 1050, ...
C15_Witness ==
  /\ pc = "done"
  /\ Len(nodes) >= 4
  /\ nodes[2].id = "agent_2"
  /\ nodes[2].position = <<450, 300>>
  /\ nodes[3].position = <<850, 300>>
  /\ \E i \in DOMAIN nodes : HasPrefix(nodes[i].name, "slack")
  /\ nodes[Len(nodes)].position = <<250 + 200 * Len(nodes), 300>>

---------------------------------------------------------------------------
(* Settling of executePythonScript's promise, checked under SpecExecFair *)

Spawned(i, k) == k \in DOMAIN procs[i]
Settled(i, k) == Spawned(i, k) /\ procs[i][k].promise.state # "pending"

\* JSON.parse of the accumulated stdout, or the text itself when it is no JSON
ParsedOrRaw(text) ==
  IF text \in DOMAIN JsonDocuments THEN JsonDocuments[text]
  ELSE [kind |-> "string", str |-> text]

\* the promise is pending until the first 'error' or 'close', and then holds
\* what that event gives: a rejection for 'error' and for a close with a
\* non-zero code, the accumulated stdout for a close with code 0
OutcomeOfFirstEvent ==
  \A i \in DOMAIN procs : \A k \in DOMAIN procs[i] :
    LET p == procs[i][k]
    IN  /\ p.promise.state = "pending" <=> (~p.errored /\ ~p.closed)
        /\ p.settledBy = "error" =>
             /\ p.errored
             /\ p.promise = [state |-> "rejected",
                             message |-> "Failed to start Python script: spawn python3 ENOENT"]
        /\ p.settledBy = "close" =>
             /\ p.closed
             /\ p.promise =
                  IF p.script.code = 0
                    THEN [state |-> "fulfilled", value |-> ParsedOrRaw(p.output)]
                    ELSE [state |-> "rejected",
                          message |-> "Python script failed with code "
                                      \o ToString(p.script.code) \o ": " \o p.errorOutput]

\* no step changes a settled promise
SettledStays ==
  \A i \in DOMAIN procs : \A k \in DOMAIN procs[i] :
    procs[i][k].promise.state # "pending" =>
      /\ k \in DOMAIN procs'[i]
      /\ procs'[i][k].promise = procs[i][k].promise

\* every call made so far has settled
NonePending == \A i \in DOMAIN procs : \A k \in DOMAIN procs[i] : Settled(i, k)

\* C16: each call of executePythonScript settles exactly once: a spawned
\* subprocess that ends leads to a settled promise (again and again all calls
\* made so far have settled, and a settled call stays settled); the outcome is
\* the one of the first 'error' or 'close' event (resolved with the accumulated
\* stdout on close with code 0, rejected otherwise); no later event changes it.
C16_SettlesOnce ==
  /\ []OutcomeOfFirstEvent
  /\ [][SettledStays]_vars
  /\ []<>NonePending

\* 'error' settled the promise; 'close' came afterwards and changed nothing
C16_Witness ==
  /\ Spawned(1, 1)
  /\ procs[1][1].settledBy = "error"
  /\ procs[1][1].errored
  /\ procs[1][1].closed
  /\ procs[1][1].promise.state = "rejected"

\* a close with code 0 after two 'data' events resolved with the whole output
C16_WitnessResolved ==
  /\ Spawned(1, 1)
  /\ procs[1][1].settledBy = "close"
  /\ procs[1][1].sent = 2
  /\ procs[1][1].promise.state = "fulfilled"
  /\ procs[1][1].promise.value.kind = "object"

---------------------------------------------------------------------------
(* The two retrieval calls of rag_search_workflows, checked under SpecExec *)

IsSearch(i) == requests[i].tool = "rag_search_workflows"

\* includeNodes as the caller passed it (false when absent)
NodesWanted(i) == requests[i].args.includeNodes = <<TRUE>>

\* a retrieval call of request i did not give a parsed array: the subprocess
\* could not start, exited with a non-zero code, or printed no JSON array
CallFailed(i, k) ==
  \/ procs[i][k].promise.state = "rejected"
  \/ /\ procs[i][k].promise.state = "fulfilled"
     /\ procs[i][k].promise.value.kind # "array"

\* search_nodes is only ever the second call of a search that wants nodes,
\* started once the promise of search_workflows has been fulfilled
SearchSequential(i) ==
  /\ Len(procs[i]) <= 2
  /\ Len(procs[i]) >= 1 => procs[i][1].method = "search_workflows"
  /\ Len(procs[i]) = 2 =>
       /\ procs[i][2].method = "search_nodes"
       /\ NodesWanted(i)
       /\ procs[i][1].closed
       /\ procs[i][1].promise.state = "fulfilled"

\* the finished search: an error result without any match when a call
\* failed, the whole payload otherwise
SearchAllOrNothing(i) ==
  LET result == Get(requests[i].result)
  IN  /\ ~NodesWanted(i) => Len(procs[i]) = 1
      /\ (\E k \in DOMAIN procs[i] : CallFailed(i, k)) =>
           /\ result.isError
           /\ DOMAIN result.payload = {"error", "details"}
      /\ ~result.isError =>
           /\ \A k \in DOMAIN procs[i] : ~CallFailed(i, k)
           /\ result.payload.totalMatches = Len(procs[i][1].promise.value.arr)
           /\ Len(result.payload.workflowMatches) = result.payload.totalMatches
           /\ (result.payload.suggestedNodes # <<>>) <=> NodesWanted(i)
           /\ NodesWanted(i) => Len(procs[i]) = 2

\* C17: in rag_search_workflows search_nodes is started only when includeNodes
\* is true and only after search_workflows completed successfully; without
\* includeNodes it is never started and the payload has no suggestedNodes; if
\* either call fails the result is an error result holding no workflow match;
\* on success totalMatches is the number of workflow matches returned.
C17_SequentialAllOrNothing ==
  \A i \in DOMAIN requests :
    IsSearch(i) =>
      /\ SearchSequential(i)
      /\ requests[i].phase = "done" => SearchAllOrNothing(i)

\* search_workflows returned its two matches, search_nodes then failed: the
\* finished request holds an error result and none of the matches
C17_Witness ==
  /\ IsSearch(1)
  /\ requests[1].phase = "done"
  /\ Len(procs[1]) = 2
  /\ procs[1][1].promise.state = "fulfilled"
  /\ procs[1][1].promise.value.kind = "array"
  /\ Len(procs[1][1].promise.value.arr) = 2
  /\ procs[1][2].promise.state = "rejected"
  /\ Get(requests[1].result).isError

\* both calls succeeded: two matches, totalMatches = 2, suggested nodes there
C17_WitnessSuccess ==
  /\ IsSearch(1)
  /\ requests[1].phase = "done"
  /\ Len(procs[1]) = 2
  /\ ~Get(requests[1].result).isError
  /\ Get(requests[1].result).payload.totalMatches = 2
  /\ Get(requests[1].result).payload.suggestedNodes # <<>>

=============================================================================
